---- MODULE Spec2Model ----
(***************************************************************************)
(* A model of zenoh-ext's AdvancedSubscriber                               *)
(* (zenoh-ext/src/advanced_subscriber.rs): the State behind the mutex, the  *)
(* handlers that mutate it (the live subscription callback, the reply       *)
(* callbacks of the queries, the liveliness callback, the periodic timer    *)
(* event, the Drop of the three reply handlers) and the calls they make to  *)
(* the application callback and to the miss callbacks.                      *)
(*                                                                         *)
(* Every handler takes the mutex on entry, so each one is one atomic step.  *)
(* The session (get, declare_subscriber), the caching publishers and the    *)
(* timer are the environment: they choose which samples arrive, on which    *)
(* path, and when a query's reply stream ends.                              *)
(***************************************************************************)
EXTENDS Integers, Sequences, FiniteSets, Bags, TLC

(***************************************************************************)
(* Bounds of the model.                                                    *)
(***************************************************************************)
\* Sequence numbers of the samples the environment sends: 0..MaxSn.
MaxSn == 3
\* Sequence numbers sent when two sessions publish: 0..WideSn.
WideSn == 2
\* The u32 of source_sn, scaled down: the arithmetic is modulo SnModulus
\* (2^32 in the program).  MaxSn + 1 < SnModulus in every specification that
\* stays away from the top of the range.
SnModulus == 8
\* Times of the timestamps the environment sends: 1..MaxTime.
MaxTime == 2
\* Number of inputs (samples, replies, liveliness events, timer ticks,
\* registrations, undeclare) of one behaviour that change the state or make a
\* call.  It bounds the counters (pending queries, next_id) as well.
MaxEvents == 4
\* Greatest sequence number and number of counted inputs in the environment
\* of the caching publisher.
CacheMaxSn == 4
CacheEvents == 4
\* Number of counted inputs of a scenario.
ScriptEvents == 12
\* Number of counted inputs in the environment of the copies.
CopyEvents == 3
\* Number of queries left to the threads of the session at a time.
MaxInFlight == 2

\* ZenohIds that parse; uhlc::ID::from(zid) is the same number.
Zids == {1, 2}
\* EntityIds of the publishers.
Eids == {1}
Payloads == {"a"}

(***************************************************************************)
(* Option<T>: None is <<>>, Some(v) is <<v>>.                              *)
(***************************************************************************)
None == <<>>
Some(v) == <<v>>
IsSome(o) == o # <<>>
Unwrap(o) == o[1]

\* u32 `x + 1` (wrapping, as a release build computes it).
Succ(x) == (x + 1) % SnModulus

\* Variant: the nb of a Miss counts the delivered sample too.
MissNb_inclusive(seq_num, last) == (seq_num - last + SnModulus) % SnModulus

\* u32 `seq_num - last - 1`, the nb of a Miss.
MissNb(seq_num, last) == (seq_num - last - 1 + SnModulus) % SnModulus

\* Variant: the sample is taken without the comparison.
is_newer_unchecked(source_sn, last) == TRUE
\* Variant: no sample passes the comparison.
is_newer_never(source_sn, last) == FALSE

\* `source_sn > state.last_delivered.unwrap()`
is_newer(source_sn, last) == source_sn > last

(***************************************************************************)
(* BTreeMap<K, V> as a function on its set of keys.                        *)
(***************************************************************************)
EmptyMap == <<>>
\* BTreeMap::insert: the new value replaces the one held under the key.
MapInsert(m, k, v) == [x \in (DOMAIN m) \cup {k} |-> IF x = k THEN v ELSE m[x]]
\* BTreeMap::entry(k).or_insert(v): the value held under the key is kept.
MapOrInsert(m, k, v) == IF k \in DOMAIN m THEN m ELSE MapInsert(m, k, v)
\* BTreeMap::remove
MapRemove(m, k) == [x \in (DOMAIN m) \ {k} |-> m[x]]

(***************************************************************************)
(* Samples.  EntityGlobalId is [zid, eid]; Timestamp is [time, id].        *)
(***************************************************************************)
SourceIds == [zid : Zids, eid : Eids]
NodeIds == Zids
Sns == 0..MaxSn
Timestamps == [time : 1..MaxTime, id : NodeIds]

\* Variant: an equal timestamp passes the comparison.
TsLessOrEqual(a, b) == a.time <= b.time

\* Timestamp's Ord: by time, then by id.
TsLess(a, b) == a.time < b.time \/ (a.time = b.time /\ a.id < b.id)

mkSample(sid, sn, ts, p) ==
    [source_id |-> sid, source_sn |-> sn, timestamp |-> ts, payload |-> p]

SequencedSamples ==
    {mkSample(Some(s), Some(n), None, p) : s \in SourceIds, n \in Sns, p \in Payloads}
TimestampedSamples ==
    {mkSample(None, None, Some(t), p) : t \in Timestamps, p \in Payloads}
\* A source id without a sequence number, and no timestamp.
IdOnlySamples ==
    {mkSample(Some(s), None, None, p) : s \in SourceIds, p \in Payloads}
OrderlessSamples ==
    {mkSample(None, None, None, p) : p \in Payloads}
Samples == SequencedSamples \cup TimestampedSamples \cup IdOnlySamples \cup OrderlessSamples

\* The publishers of an environment.  "one": one session (zid 1), whose
\* publisher sends every sequence number and every time.  "two": two sessions,
\* which send the sequence numbers up to WideSn.
\* "sequenced": one publisher (zid 1, eid 1), all of whose samples carry a
\* sequence number.  "cache": the same, with a cache that answers the queries
\* about it with all it has published.
\* "script": the same publisher in a scenario, which fixes the order of its
\* live samples and what its cache holds.
\* "copies": one session whose samples come in two copies that differ in
\* their payload, under two sequence numbers and two times.
\* "top": one publisher (zid 1, eid 1) that has reached the end of the u32
\* domain: it sends the last two sequence numbers of the domain and 0.
Environments == {"one", "two"}
SeqEnv == "sequenced"
CacheEnv == "cache"
ScriptEnv == "script"
CopiesEnv == "copies"
TopEnv == "top"
AllEnvironments == Environments \cup {SeqEnv, CacheEnv, ScriptEnv, CopiesEnv, TopEnv}
\* u32::MAX, the last sequence number of the domain.
TopSn == SnModulus - 1
CacheSource == [zid |-> 1, eid |-> 1]
CacheSample(n) == mkSample(Some(CacheSource), Some(n), None, "a")
EnvZids(e) == IF e = "two" THEN Zids ELSE {1}
EnvSns(e) ==
    IF e = "two" THEN 0..WideSn
    ELSE IF e \in {CacheEnv, ScriptEnv} THEN 0..CacheMaxSn
    ELSE IF e = TopEnv THEN {0, TopSn - 1, TopSn}
    ELSE Sns
SampleZid(s) ==
    IF IsSome(s.source_id) THEN {Unwrap(s.source_id).zid}
    ELSE IF IsSome(s.timestamp) THEN {Unwrap(s.timestamp).id}
    ELSE {}
CopyPayloads == {"a", "b"}
CopySamples ==
    {mkSample(Some(CacheSource), Some(n), None, p) : n \in {1, 2}, p \in CopyPayloads}
    \cup {mkSample(None, None, Some([time |-> n, id |-> 1]), p) : n \in {1, 2}, p \in CopyPayloads}
\* The samples the publishers of each environment send.
EnvSamples ==
    [e \in AllEnvironments |->
        IF e \in {SeqEnv, CacheEnv, ScriptEnv, TopEnv} THEN {CacheSample(n) : n \in EnvSns(e)}
        ELSE IF e = CopiesEnv THEN CopySamples
        ELSE {s \in Samples : /\ SampleZid(s) \subseteq EnvZids(e)
                              /\ IsSome(s.source_sn) => Unwrap(s.source_sn) \in EnvSns(e)}]
\* Number of counted inputs of a behaviour in each environment.
EnvEvents(e) ==
    IF e = CacheEnv THEN CacheEvents
    ELSE IF e = ScriptEnv THEN ScriptEvents
    ELSE IF e = CopiesEnv THEN CopyEvents
    ELSE IF e = "two" THEN MaxEvents - 2 ELSE MaxEvents

(***************************************************************************)
(* Calls made by a handler, in the order it makes them.                    *)
(***************************************************************************)
\* states.callback.call(sample)
SampleCall(sample) == [kind |-> "sample", sample |-> sample]
\* miss_callback.call(Miss {source, nb}) for every callback of miss_handlers
\* (`to`: the ids of the callbacks called).
MissCall(source, nb, miss_handlers) ==
    [kind |-> "miss", source |-> source, nb |-> nb, to |-> miss_handlers]

\* SourceState<T> as handle_sample and the liveliness callback create it.
\* A state created with a query counted (not the code's).
NewSourceState_pending ==
    [last_delivered |-> None, pending_queries |-> 1, pending_samples |-> EmptyMap]
NewSourceState ==
    [last_delivered |-> None, pending_queries |-> 0, pending_samples |-> EmptyMap]

(***************************************************************************)
(* handle_sample                                                           *)
(***************************************************************************)
\* The `while let Some(s) = state.pending_samples.remove(&(last_seq_num + 1))`
\* loop of handle_sample.
\* A drain that takes nothing from the buffer (not the code's).
drain_pending_none(pending_samples, last_seq_num, calls) ==
    [last_delivered |-> Some(last_seq_num),
     pending_samples |-> pending_samples,
     calls |-> calls]

RECURSIVE drain_pending(_, _, _)
drain_pending(pending_samples, last_seq_num, calls) ==
    IF Succ(last_seq_num) \in DOMAIN pending_samples
    THEN drain_pending(MapRemove(pending_samples, Succ(last_seq_num)),
                       Succ(last_seq_num),
                       Append(calls, SampleCall(pending_samples[Succ(last_seq_num)])))
    ELSE [last_delivered |-> Some(last_seq_num),
          pending_samples |-> pending_samples,
          calls |-> calls]

\* The sequenced branch of handle_sample (the source's SourceState is `state`):
\* [state, calls].
handle_sequenced(states, state, source_id, source_sn, sample) ==
    IF states.global_pending_queries # 0
    THEN [state |-> [state EXCEPT !.pending_samples = MapInsert(@, source_sn, sample)],
          calls |-> <<>>]
    ELSE IF IsSome(state.last_delivered)
            /\ source_sn # Succ(Unwrap(state.last_delivered))
    THEN IF is_newer(source_sn, Unwrap(state.last_delivered))
         THEN IF states.retransmission
              THEN [state |-> [state EXCEPT
                                 !.pending_samples = MapInsert(@, source_sn, sample)],
                    calls |-> <<>>]
              ELSE [state |-> [state EXCEPT !.last_delivered = Some(source_sn)],
                    calls |-> << MissCall(source_id,
                                          MissNb(source_sn, Unwrap(state.last_delivered)),
                                          states.miss_handlers),
                                 SampleCall(sample) >>]
         ELSE [state |-> state, calls |-> <<>>]
    ELSE LET d == drain_pending(state.pending_samples, source_sn, <<SampleCall(sample)>>)
         IN  [state |-> [state EXCEPT !.last_delivered = d.last_delivered,
                                      !.pending_samples = d.pending_samples],
              calls |-> d.calls]

\* A timestamped branch that looks at the counter of the node only (not the
\* code's).
handle_timestamped_ungated(states, state, timestamp, sample) ==
    IF IsSome(state.last_delivered) /\ ~TsLess(Unwrap(state.last_delivered), timestamp)
    THEN [state |-> state, calls |-> <<>>]
    ELSE IF state.pending_queries = 0
    THEN [state |-> [state EXCEPT !.last_delivered = Some(timestamp)],
          calls |-> <<SampleCall(sample)>>]
    ELSE [state |-> [state EXCEPT !.pending_samples = MapOrInsert(@, timestamp, sample)],
          calls |-> <<>>]

\* A timestamped branch that looks at the global counter only (not the code's).
handle_timestamped_global_only(states, state, timestamp, sample) ==
    IF IsSome(state.last_delivered) /\ ~TsLess(Unwrap(state.last_delivered), timestamp)
    THEN [state |-> state, calls |-> <<>>]
    ELSE IF states.global_pending_queries = 0
    THEN [state |-> [state EXCEPT !.last_delivered = Some(timestamp)],
          calls |-> <<SampleCall(sample)>>]
    ELSE [state |-> [state EXCEPT !.pending_samples = MapOrInsert(@, timestamp, sample)],
          calls |-> <<>>]

\* The timestamped branch of handle_sample on the node's state: [state, calls].
handle_timestamped(states, state, timestamp, sample) ==
    IF (IF IsSome(state.last_delivered)
        THEN TsLess(Unwrap(state.last_delivered), timestamp)
        ELSE TRUE)
    THEN IF states.global_pending_queries = 0 /\ state.pending_queries = 0
         THEN [state |-> [state EXCEPT !.last_delivered = Some(timestamp)],
               calls |-> <<SampleCall(sample)>>]
         ELSE [state |-> [state EXCEPT
                            !.pending_samples = MapOrInsert(@, timestamp, sample)],
               calls |-> <<>>]
    ELSE [state |-> state, calls |-> <<>>]

\* handle_sample(states, sample): the State after it, the calls it made and the
\* boolean it returns.
handle_sample(states, sample) ==
    IF IsSome(sample.source_id) /\ IsSome(sample.source_sn)
    THEN LET source_id == Unwrap(sample.source_id)
             new == source_id \notin DOMAIN states.sequenced_states
             state == IF new THEN NewSourceState
                      ELSE states.sequenced_states[source_id]
             r == handle_sequenced(states, state, source_id,
                                   Unwrap(sample.source_sn), sample)
         IN  [states |-> [states EXCEPT !.sequenced_states =
                                            MapInsert(@, source_id, r.state)],
              calls |-> r.calls,
              new |-> new]
    ELSE IF IsSome(sample.timestamp)
    THEN LET timestamp == Unwrap(sample.timestamp)
             id == timestamp.id
             state == IF id \in DOMAIN states.timestamped_states
                      THEN states.timestamped_states[id]
                      ELSE NewSourceState
             r == handle_timestamped(states, state, timestamp, sample)
         IN  [states |-> [states EXCEPT !.timestamped_states =
                                            MapInsert(@, id, r.state)],
              calls |-> r.calls,
              new |-> FALSE]
    ELSE [states |-> states, calls |-> <<SampleCall(sample)>>, new |-> FALSE]

(***************************************************************************)
(* flush_sequenced_source, flush_timestamped_source                        *)
(***************************************************************************)
MinSn(S) == CHOOSE x \in S : \A y \in S : x <= y
MinTs(S) == CHOOSE x \in S : \A y \in S : x = y \/ TsLess(x, y)

\* The `for (seq_num, sample) in pending_samples` loop of flush_sequenced_source,
\* in ascending order of the keys.
RECURSIVE flush_sequenced_loop(_, _, _, _, _)
flush_sequenced_loop(pending_samples, last_delivered, calls, source_id, miss_handlers) ==
    IF DOMAIN pending_samples = {}
    THEN [last_delivered |-> last_delivered, calls |-> calls]
    ELSE LET seq_num == MinSn(DOMAIN pending_samples)
             sample == pending_samples[seq_num]
             rest == MapRemove(pending_samples, seq_num)
         IN  IF ~IsSome(last_delivered) \/ seq_num = Succ(Unwrap(last_delivered))
             THEN flush_sequenced_loop(rest, Some(seq_num),
                                       Append(calls, SampleCall(sample)),
                                       source_id, miss_handlers)
             ELSE IF seq_num > Succ(Unwrap(last_delivered))
             THEN flush_sequenced_loop(rest, Some(seq_num),
                                       calls \o << MissCall(source_id,
                                                            MissNb(seq_num, Unwrap(last_delivered)),
                                                            miss_handlers),
                                                   SampleCall(sample) >>,
                                       source_id, miss_handlers)
             ELSE flush_sequenced_loop(rest, last_delivered, calls,
                                       source_id, miss_handlers)

\* Variant: the samples are delivered out of the buffer without the swap that
\* empties it.
flush_sequenced_source_unswapped(state, source_id, miss_handlers) ==
    IF state.pending_queries = 0 /\ DOMAIN state.pending_samples # {}
    THEN LET f == flush_sequenced_loop(state.pending_samples, state.last_delivered,
                                       <<>>, source_id, miss_handlers)
         IN  [state |-> [state EXCEPT !.last_delivered = f.last_delivered],
              calls |-> f.calls]
    ELSE [state |-> state, calls |-> <<>>]

\* flush_sequenced_source(state, callback, source_id, miss_handlers): [state, calls]
flush_sequenced_source(state, source_id, miss_handlers) ==
    IF state.pending_queries = 0 /\ DOMAIN state.pending_samples # {}
    THEN LET f == flush_sequenced_loop(state.pending_samples, state.last_delivered,
                                       <<>>, source_id, miss_handlers)
         IN  [state |-> [state EXCEPT !.pending_samples = EmptyMap,
                                      !.last_delivered = f.last_delivered],
              calls |-> f.calls]
    ELSE [state |-> state, calls |-> <<>>]

\* The `for (timestamp, sample) in pending_samples` loop of flush_timestamped_source.
RECURSIVE flush_timestamped_loop(_, _, _)
flush_timestamped_loop(pending_samples, last_delivered, calls) ==
    IF DOMAIN pending_samples = {}
    THEN [last_delivered |-> last_delivered, calls |-> calls]
    ELSE LET timestamp == MinTs(DOMAIN pending_samples)
             sample == pending_samples[timestamp]
             rest == MapRemove(pending_samples, timestamp)
         IN  IF (IF IsSome(last_delivered)
                 THEN TsLess(Unwrap(last_delivered), timestamp)
                 ELSE TRUE)
             THEN flush_timestamped_loop(rest, Some(timestamp),
                                         Append(calls, SampleCall(sample)))
             ELSE flush_timestamped_loop(rest, last_delivered, calls)

\* A flush that does not look at pending_queries (not the code's).
flush_timestamped_source_unguarded(state) ==
    IF DOMAIN state.pending_samples # {}
    THEN LET f == flush_timestamped_loop(state.pending_samples, state.last_delivered, <<>>)
         IN  [state |-> [state EXCEPT !.pending_samples = EmptyMap,
                                      !.last_delivered = f.last_delivered],
              calls |-> f.calls]
    ELSE [state |-> state, calls |-> <<>>]

\* flush_timestamped_source(state, callback): [state, calls]
flush_timestamped_source(state) ==
    IF state.pending_queries = 0 /\ DOMAIN state.pending_samples # {}
    THEN LET f == flush_timestamped_loop(state.pending_samples, state.last_delivered, <<>>)
         IN  [state |-> [state EXCEPT !.pending_samples = EmptyMap,
                                      !.last_delivered = f.last_delivered],
              calls |-> f.calls]
    ELSE [state |-> state, calls |-> <<>>]

\* u64::saturating_sub(1)
\* A counter that is never decremented (not the code's).
saturating_sub1_kept(x) == x
saturating_sub1(x) == IF x = 0 THEN 0 ELSE x - 1

\* A range that starts one sequence number too far (not the code's).
seq_num_range_skipping(last_delivered) ==
    IF IsSome(last_delivered) THEN Some(Succ(Succ(Unwrap(last_delivered)))) ELSE None

\* seq_num_range(start, None): the start of the `_sn=<start>..` selector
\* (None: `_sn=..`), from state.last_delivered.map(|s| s + 1).
seq_num_range(last_delivered) ==
    IF IsSome(last_delivered) THEN Some(Succ(Unwrap(last_delivered))) ELSE None

(***************************************************************************)
(* The state                                                               *)
(***************************************************************************)
VARIABLES
    env,         \* the environment: which publishers there are
    conf,        \* the builder's configuration (AdvancedSubscriberBuilder)
    states,      \* the State behind statesref
    timer,       \* the PeriodicQuery events the timer holds: a bag of source ids
    queries,     \* the queries in flight: a bag of reply handlers
    undeclared,  \* AdvancedSubscriber::undeclare was called
    seq_calls,   \* per sequenced source, the calls made about it so far
    ts_calls,    \* per timestamp id, the calls made about it so far
    out,         \* the calls made by the last step, in order
    events,      \* number of inputs so far
    cache,       \* the publisher of the "cache" environment and its cache
    script,      \* the scenario of the "script" environment, and what is left of it
    threads      \* the core lock and where each thread is in its handler

vars ==
    <<env, conf, states, timer, queries, undeclared, seq_calls, ts_calls, out, events,
      cache, script, threads>>

\* The reply handlers, each with the selector of its query.  source_id is the
\* EntityGlobalId of a SequencedRepliesHandler, id the uhlc::ID of a
\* TimestampedRepliesHandler, kept as their numbers (0: no such field).
Handler(name, zid, eid, selector, start) ==
    [handler |-> name, zid |-> zid, eid |-> eid, selector |-> selector, start |-> start]
InitialRepliesHandler == Handler("Initial", 0, 0, "history", None)
\* The history query of a liveliness token of a sequenced publisher.
SequencedHistoryHandler(source_id) ==
    Handler("Sequenced", source_id.zid, source_id.eid, "history", None)
\* The `_sn=<start>..` query of a retransmission or of a periodic query.
SequencedRepliesHandler(source_id, start) ==
    Handler("Sequenced", source_id.zid, source_id.eid, "_sn", start)
TimestampedRepliesHandler(id) == Handler("Timestamped", id, 0, "history", None)
HandlerSourceId(q) == [zid |-> q.zid, eid |-> q.eid]

\* The samples a query can be answered with.  The initial query
\* (@adv/**/@/<ke>) reaches every cache; the key expression of a per-source
\* query names the publisher, whose cache answers with its own samples, from
\* the start of the range on when the selector has one.
ReplySamples(q) ==
    IF q.handler = "Initial" THEN EnvSamples[env]
    ELSE IF q.handler = "Sequenced"
    THEN {s \in EnvSamples[env] :
             /\ s.source_id = Some(HandlerSourceId(q))
             /\ IsSome(s.source_sn)
             /\ IsSome(q.start) => Unwrap(s.source_sn) >= Unwrap(q.start)}
    ELSE {s \in EnvSamples[env] \cap TimestampedSamples : Unwrap(s.timestamp).id = q.zid}

\* Is the call about the sequenced source / the timestamp id?
IsSequencedCall(c, source_id) ==
    IF c.kind = "miss" THEN c.source = source_id
    ELSE c.sample.source_id = Some(source_id) /\ IsSome(c.sample.source_sn)
IsTimestampedCall(c, id) ==
    /\ c.kind = "sample"
    /\ ~(IsSome(c.sample.source_id) /\ IsSome(c.sample.source_sn))
    /\ IsSome(c.sample.timestamp)
    /\ Unwrap(c.sample.timestamp).id = id

\* The step made `calls`.
Called(calls) ==
    /\ out' = calls
    /\ IF calls = <<>>
       THEN UNCHANGED <<seq_calls, ts_calls>>
       ELSE /\ seq_calls' = [s \in SourceIds |->
                    seq_calls[s] \o SelectSeq(calls, LAMBDA c : IsSequencedCall(c, s))]
            /\ ts_calls' = [n \in NodeIds |->
                    ts_calls[n] \o SelectSeq(calls, LAMBDA c : IsTimestampedCall(c, n))]

\* The configurations of the builder: late-publisher detection is an option
\* of history, periodic queries an option of recovery.
Configurations ==
    {c \in [history : BOOLEAN, detect_late_publishers : BOOLEAN,
            retransmission : BOOLEAN, periodic_queries : BOOLEAN] :
        /\ c.detect_late_publishers => c.history
        /\ c.periodic_queries => c.retransmission}

\* The publisher has published the sequence numbers below `published` and
\* sent those below `sent` to the subscribers; `answer` is the set of sequence
\* numbers its cache still has to reply to the query in flight (None: it has
\* not answered yet).
NewCache == [published |-> 0, sent |-> 0, answer |-> None]

\* A scenario: the publisher's samples come live in the order `order`, its
\* cache holds the sequence numbers `cached`, it was there before the
\* subscriber (`early`: the initial history query reaches its cache) or not,
\* its liveliness token is seen (`put`) or not, and the timer ticks once
\* (`tick`) or not.  `live`, `token` and `ticks` are what is still to come, `answers`
\* the queries in flight, each with the replies still to come.
NoScript ==
    [order |-> <<>>, cached |-> {}, early |-> FALSE, put |-> FALSE, tick |-> FALSE,
     live |-> <<>>, token |-> FALSE, ticks |-> FALSE, answers |-> <<>>]

(***************************************************************************)
(* The core lock.  Every handler is a sequence of operations on the Mutex  *)
(* behind statesref: "lock" (zlock!), "cs" (what it does under the lock,   *)
(* timer.add included), "call" (a run of handle_sample or of a flush, with *)
(* the calls of the callbacks and what follows under the same guard),      *)
(* "unlock" (drop of the guard) and "get" (session.get(..).wait()).  The   *)
(* callbacks of the                                                        *)
(* subscription, of the liveliness subscription and of the replies run on  *)
(* the threads of the session, PeriodicQuery::run on the thread of the     *)
(* timer, the constructor and the miss listeners on the application's.     *)
(***************************************************************************)
BusThreads == {"bus1", "bus2"}
Threads == BusThreads \cup {"timer", "app"}
Free == "free"

\* A callback that issues its query before it drops the guard (not the code's).
sub_callback_ops_locked(query) ==
    IF query THEN <<"lock", "call", "get", "unlock">> ELSE <<"lock", "call", "unlock">>
\* sub_callback; query: the retransmission condition holds after handle_sample
sub_callback_ops(query) ==
    IF query THEN <<"lock", "call", "unlock", "get">> ELSE <<"lock", "call", "unlock">>
\* PeriodicQuery::run; known: the source has a state
PeriodicQuery_run_ops(known) ==
    IF known THEN <<"lock", "cs", "unlock", "get">> ELSE <<"lock", "cs", "unlock">>
\* A reply callback that calls handle_sample without the lock (not the code's).
reply_callback_ops_unlocked == <<"call">>
\* The callback of a query, on a reply that is a sample of the key expression.
reply_callback_ops == <<"lock", "call", "unlock">>
\* live_callback on a Put; branch: "uhlc", "eid" (new: the source had no
\* state), "zid" (no ZenohId), or "none" (no token, or no entity id).
LiveBranches == {"uhlc", "eid", "zid", "none"}
live_callback_ops(branch, new) ==
    IF branch = "none" THEN <<>>
    ELSE <<"lock", "cs", "unlock", "get">>
         \o (IF branch = "eid" /\ new THEN <<"lock", "cs", "unlock">> ELSE <<>>)
\* Drop of InitialRepliesHandler, SequencedRepliesHandler, TimestampedRepliesHandler
RepliesHandler_drop_ops == <<"lock", "call", "unlock">>
\* SampleMissListenerBuilder::wait and SampleMissListener::undeclare_impl
miss_listener_ops == <<"lock", "cs", "unlock">>
\* AdvancedSubscriber::new after the subscriber is declared: the initial query
new_ops(c) == IF c.history THEN <<"get">> ELSE <<>>

\* bus: the queries in flight whose replies and end are left to the threads
\* of the session.
InitialThreads(c) ==
    [lock |-> Free,
     pc |-> [t \in Threads |-> IF t = "app" THEN new_ops(c) ELSE <<>>],
     bus |-> 0]

Idle(t) == threads.pc[t] = <<>>
At(t, op) == threads.pc[t] # <<>> /\ Head(threads.pc[t]) = op
Subscriber ==
    <<env, conf, states, timer, queries, undeclared, seq_calls, ts_calls, out, events,
      cache, script>>

\* A thread enters a handler.
Begin(t, ops) ==
    /\ Idle(t)
    /\ ops # <<>>
    /\ threads' = [threads EXCEPT !.pc[t] = ops]
    /\ UNCHANGED Subscriber

StartSub(t) ==
    /\ t \in BusThreads
    /\ ~undeclared
    /\ \E query \in {FALSE, conf.retransmission} : Begin(t, sub_callback_ops(query))
StartLive(t) ==
    /\ t \in BusThreads
    /\ conf.detect_late_publishers
    /\ \E branch \in LiveBranches, new \in BOOLEAN : Begin(t, live_callback_ops(branch, new))
StartReply(t) ==
    /\ t \in BusThreads
    /\ threads.bus > 0
    /\ Begin(t, reply_callback_ops)
\* The end of a query in flight: its handler is dropped.
StartDrop(t) ==
    /\ t \in BusThreads
    /\ threads.bus > 0
    /\ Idle(t)
    /\ threads' = [threads EXCEPT !.pc[t] = RepliesHandler_drop_ops, !.bus = @ - 1]
    /\ UNCHANGED Subscriber
StartTimer ==
    /\ conf.periodic_queries
    /\ \E known \in BOOLEAN : Begin("timer", PeriodicQuery_run_ops(known))
StartMiss == Begin("app", miss_listener_ops)

\* Mutex::lock: the thread goes on when the lock is free; the Mutex is not
\* reentrant, a thread that holds it waits for ever.
Acquire(t) ==
    /\ At(t, "lock")
    /\ threads.lock = Free
    /\ threads' = [threads EXCEPT !.lock = t, !.pc[t] = Tail(@)]
    /\ UNCHANGED Subscriber
Critical(t) ==
    /\ At(t, "cs")
    /\ threads' = [threads EXCEPT !.pc[t] = Tail(@)]
    /\ UNCHANGED Subscriber
\* handle_sample or a flush under way: the code that calls the application's
\* callback and the miss callbacks.
Callbacks(t) ==
    /\ At(t, "call")
    /\ threads' = [threads EXCEPT !.pc[t] = Tail(@)]
    /\ UNCHANGED Subscriber
Release_lock(t) ==
    /\ At(t, "unlock")
    /\ threads' = [threads EXCEPT !.lock = Free, !.pc[t] = Tail(@)]
    /\ UNCHANGED Subscriber
\* session.get: the query is left to the threads of the session, ...
GetAsync(t) ==
    /\ At(t, "get")
    /\ threads.bus < MaxInFlight
    /\ threads' = [threads EXCEPT !.bus = @ + 1, !.pc[t] = Tail(@)]
    /\ UNCHANGED Subscriber
\* ... or it ends within the call: the calling thread runs the callback on
\* the replies there are and drops the handler before get returns.
GetSync(t) ==
    /\ At(t, "get")
    /\ \E replied \in BOOLEAN :
          threads' = [threads EXCEPT !.pc[t] =
                         (IF replied THEN reply_callback_ops ELSE <<>>)
                         \o RepliesHandler_drop_ops \o Tail(@)]
    /\ UNCHANGED Subscriber

\* The next operation of a handler that was entered.
Run(t) ==
    Acquire(t) \/ Critical(t) \/ Callbacks(t) \/ Release_lock(t) \/ GetAsync(t) \/ GetSync(t)

LockNext ==
    \/ \E t \in Threads : StartSub(t)
    \/ \E t \in Threads : StartLive(t)
    \/ \E t \in Threads : StartReply(t)
    \/ \E t \in Threads : StartDrop(t)
    \/ StartTimer
    \/ StartMiss
    \/ \E t \in Threads : Acquire(t)
    \/ \E t \in Threads : Critical(t)
    \/ \E t \in Threads : Callbacks(t)
    \/ \E t \in Threads : Release_lock(t)
    \/ \E t \in Threads : GetAsync(t)
    \/ \E t \in Threads : GetSync(t)

\* AdvancedSubscriber::new
NewWith(e, c, sc) ==
    /\ env = e
    /\ conf = c
    /\ cache = NewCache
    /\ script = sc
    /\ threads = InitialThreads(c)
    /\ states = [next_id |-> 0,
                 sequenced_states |-> EmptyMap,
                 timestamped_states |-> EmptyMap,
                 global_pending_queries |-> IF conf.history THEN 1 ELSE 0,
                 period |-> conf.periodic_queries,
                 retransmission |-> conf.retransmission,
                 miss_handlers |-> {}]
    /\ timer = EmptyBag
    /\ queries = IF conf.history THEN SetToBag({InitialRepliesHandler}) ELSE EmptyBag
    /\ undeclared = FALSE
    /\ seq_calls = [s \in SourceIds |-> <<>>]
    /\ ts_calls = [n \in NodeIds |-> <<>>]
    /\ out = <<>>
    /\ events = 0

New(e, c) == NewWith(e, c, NoScript)

Init == \E e \in Environments, c \in Configurations : New(e, c)

\* An input is counted when it changes the state or makes a call.
Input == events < EnvEvents(env)
Counted ==
    events' = IF states' = states /\ queries' = queries /\ timer' = timer
                 /\ undeclared' = undeclared /\ out' = <<>>
              THEN events ELSE events + 1

\* A callback that never asks for a retransmission (not the code's).
NeedsRetransmission_never(st, source_id) == FALSE
\* A condition that does not look at the queries in flight (not the code's).
NeedsRetransmission_unguarded(st, source_id) ==
    /\ source_id \in DOMAIN st.sequenced_states
    /\ st.retransmission
    /\ DOMAIN st.sequenced_states[source_id].pending_samples # {}

(***************************************************************************)
(* The handlers                                                            *)
(***************************************************************************)
\* Does sub_callback ask for a retransmission after handle_sample?
NeedsRetransmission(st, source_id) ==
    /\ source_id \in DOMAIN st.sequenced_states
    /\ st.retransmission
    /\ st.sequenced_states[source_id].pending_queries = 0
    /\ DOMAIN st.sequenced_states[source_id].pending_samples # {}

\* sub_callback: a sample of the subscription.
sub_callback(s) ==
    /\ ~undeclared
    /\ Input
    /\ LET r == handle_sample(states, s)
           source_id == Unwrap(s.source_id)
           spawn == IsSome(s.source_id) /\ r.new /\ r.states.period
           query == IsSome(s.source_id) /\ NeedsRetransmission(r.states, source_id)
       IN  /\ states' = IF query
                        THEN [r.states EXCEPT
                                !.sequenced_states[source_id].pending_queries = @ + 1]
                        ELSE r.states
           /\ queries' = IF query
                         THEN queries (+) SetToBag({SequencedRepliesHandler(source_id,
                                  seq_num_range(r.states.sequenced_states[source_id].last_delivered))})
                         ELSE queries
           /\ timer' = IF spawn THEN timer (+) SetToBag({source_id}) ELSE timer
           /\ Called(r.calls)
    /\ UNCHANGED <<env, conf, undeclared>>
    /\ Counted

\* The callback of a query: a reply.
reply_callback(q, s) ==
    /\ Input
    /\ BagIn(q, queries)
    /\ s \in ReplySamples(q)
    /\ LET r == handle_sample(states, s)
       IN  /\ states' = r.states
           /\ Called(r.calls)
    /\ UNCHANGED <<env, conf, timer, queries, undeclared>>
    /\ Counted

\* PeriodicQuery::run
PeriodicQuery_run(source_id) ==
    /\ Input
    /\ BagIn(source_id, timer)
    /\ source_id \in DOMAIN states.sequenced_states
    /\ states' = [states EXCEPT !.sequenced_states[source_id].pending_queries = @ + 1]
    /\ queries' = queries (+) SetToBag({SequencedRepliesHandler(source_id,
                      seq_num_range(states.sequenced_states[source_id].last_delivered))})
    /\ Called(<<>>)
    /\ UNCHANGED <<env, conf, timer, undeclared>>
    /\ Counted

(***************************************************************************)
(* The liveliness callback                                                 *)
(***************************************************************************)
\* The zid and eid chunks of the liveliness tokens the environment declares.
ZidChunks == {"1", "2", "zz"}
EidChunks == {"uhlc", "1", "x"}
KE_UHLC == "uhlc"
\* A liveliness sample: its kind and what ke_liveliness::parse makes of its key.
LivelinessSamples ==
    [kind : {"Put", "Delete"}, parsed : {TRUE}, zid : ZidChunks, eid : EidChunks]
    \cup [kind : {"Put", "Delete"}, parsed : {FALSE}, zid : {""}, eid : {""}]

\* The tokens of the publishers of the environment, and those no publisher
\* of it declares correctly.
EnvLivelinessSamples ==
    [e \in AllEnvironments |->
        {s \in LivelinessSamples :
            s.zid \in {"1", "zz", ""} \/ (s.zid = "2" /\ 2 \in EnvZids(e))}]

\* ZenohId::from_str
ZenohId_from_str(c) == CASE c = "1" -> Some(1) [] c = "2" -> Some(2) [] OTHER -> None
\* EntityId::from_str
EntityId_from_str(c) == CASE c = "1" -> Some(1) [] OTHER -> None

\* A parser that accepts every key expression (not the code's).
ke_liveliness_parse_lenient(s) == TRUE
\* ke_liveliness::parse(s.key_expr()) is Ok
ke_liveliness_parse(s) == s.parsed

\* entry(id).insert(SourceState {..}) then += 1: the state of a known source
\* is replaced (not the code's).
bump_pending_queries_fresh(m, k) ==
    MapInsert(m, k, [NewSourceState EXCEPT !.pending_queries = @ + 1])

\* entry(id).or_insert(SourceState {..}) then state.pending_queries += 1
bump_pending_queries(m, k) ==
    LET state == IF k \in DOMAIN m THEN m[k] ELSE NewSourceState
    IN  MapInsert(m, k, [state EXCEPT !.pending_queries = @ + 1])

\* live_callback, eid == KE_UHLC
live_callback_timestamped(id) ==
    /\ states' = [states EXCEPT !.timestamped_states = bump_pending_queries(@, id)]
    /\ queries' = queries (+) SetToBag({TimestampedRepliesHandler(id)})
    /\ UNCHANGED timer

\* live_callback, the eid is an EntityId.  (The PeriodicQuery is added under
\* a second lock after the get; nothing reads the timer in between.)
live_callback_sequenced(source_id) ==
    /\ states' = [states EXCEPT !.sequenced_states = bump_pending_queries(@, source_id)]
    /\ queries' = queries (+) SetToBag({SequencedHistoryHandler(source_id)})
    /\ timer' = IF source_id \notin DOMAIN states.sequenced_states /\ states.period
                THEN timer (+) SetToBag({source_id})
                ELSE timer

\* live_callback, the zid is no ZenohId
live_callback_global ==
    /\ states' = [states EXCEPT !.global_pending_queries = @ + 1]
    /\ queries' = queries (+) SetToBag({InitialRepliesHandler})
    /\ UNCHANGED timer

\* live_callback: a sample of the liveliness subscriber, which is declared
\* when history.detect_late_publishers is set.
live_callback(s) ==
    /\ conf.detect_late_publishers
    /\ ~undeclared
    /\ Input
    /\ IF s.kind = "Put" /\ ke_liveliness_parse(s)
       THEN LET zid == ZenohId_from_str(s.zid)
                eid == EntityId_from_str(s.eid)
            IN  IF IsSome(zid)
                THEN IF s.eid = KE_UHLC
                     THEN live_callback_timestamped(Unwrap(zid))
                     ELSE IF IsSome(eid)
                     THEN live_callback_sequenced([zid |-> Unwrap(zid), eid |-> Unwrap(eid)])
                     ELSE UNCHANGED <<states, queries, timer>>
                ELSE live_callback_global
       ELSE UNCHANGED <<states, queries, timer>>
    /\ Called(<<>>)
    /\ UNCHANGED <<env, conf, undeclared>>
    /\ Counted

(***************************************************************************)
(* Drop of the reply handlers: the reply stream of a query ended           *)
(***************************************************************************)
\* The orders in which a HashMap may iterate over the keys S.
Orders(S) == {f \in [1..Cardinality(S) -> S] : \A i, j \in DOMAIN f : f[i] = f[j] => i = j}

RECURSIVE ConcatCalls(_, _)
ConcatCalls(order, f) ==
    IF order = <<>> THEN <<>> ELSE f[Head(order)].calls \o ConcatCalls(Tail(order), f)

\* The two loops of InitialRepliesHandler::drop when the counter reached 0.
flush_all(order, torder) ==
    LET fs == [s \in DOMAIN states.sequenced_states |->
                  flush_sequenced_source(states.sequenced_states[s], s, states.miss_handlers)]
        ft == [n \in DOMAIN states.timestamped_states |->
                  flush_timestamped_source(states.timestamped_states[n])]
    IN  /\ states' = [states EXCEPT
                        !.global_pending_queries = 0,
                        !.sequenced_states = [s \in DOMAIN fs |-> fs[s].state],
                        !.timestamped_states = [n \in DOMAIN ft |-> ft[n].state]]
        /\ timer' = IF states.period
                    THEN timer (+) SetToBag(DOMAIN states.sequenced_states)
                    ELSE timer
        /\ Called(ConcatCalls(order, fs) \o ConcatCalls(torder, ft))

\* InitialRepliesHandler::drop
InitialRepliesHandler_drop ==
    /\ BagIn(InitialRepliesHandler, queries)
    /\ queries' = queries (-) SetToBag({InitialRepliesHandler})
    /\ IF saturating_sub1(states.global_pending_queries) = 0
       THEN \E order \in Orders(DOMAIN states.sequenced_states),
               torder \in Orders(DOMAIN states.timestamped_states) :
                flush_all(order, torder)
       ELSE /\ states' = [states EXCEPT
                            !.global_pending_queries = saturating_sub1(@)]
            /\ Called(<<>>)
            /\ UNCHANGED timer
    /\ UNCHANGED <<env, conf, undeclared, events>>

\* SequencedRepliesHandler::drop
SequencedRepliesHandler_drop(q) ==
    /\ BagIn(q, queries)
    /\ q.handler = "Sequenced"
    /\ queries' = queries (-) SetToBag({q})
    /\ LET source_id == HandlerSourceId(q)
           state == [states.sequenced_states[source_id] EXCEPT
                        !.pending_queries = saturating_sub1(@)]
           f == IF states.global_pending_queries = 0
                THEN flush_sequenced_source(state, source_id, states.miss_handlers)
                ELSE [state |-> state, calls |-> <<>>]
       IN  IF source_id \in DOMAIN states.sequenced_states
           THEN /\ states' = [states EXCEPT !.sequenced_states[source_id] = f.state]
                /\ Called(f.calls)
           ELSE /\ UNCHANGED states
                /\ Called(<<>>)
    /\ UNCHANGED <<env, conf, timer, undeclared, events>>

\* TimestampedRepliesHandler::drop
TimestampedRepliesHandler_drop(q) ==
    /\ BagIn(q, queries)
    /\ q.handler = "Timestamped"
    /\ queries' = queries (-) SetToBag({q})
    /\ LET id == q.zid
           state == [states.timestamped_states[id] EXCEPT
                        !.pending_queries = saturating_sub1(@)]
           f == IF states.global_pending_queries = 0
                THEN flush_timestamped_source(state)
                ELSE [state |-> state, calls |-> <<>>]
       IN  IF id \in DOMAIN states.timestamped_states
           THEN /\ states' = [states EXCEPT !.timestamped_states[id] = f.state]
                /\ Called(f.calls)
           ELSE /\ UNCHANGED states
                /\ Called(<<>>)
    /\ UNCHANGED <<env, conf, timer, undeclared, events>>

(***************************************************************************)
(* The miss listeners and undeclare                                        *)
(***************************************************************************)
\* State::register_miss_callback (SampleMissListenerBuilder::wait)
\* A registration that does not advance next_id (not the code's).
register_miss_callback_reusing ==
    /\ ~undeclared
    /\ Input
    /\ states' = [states EXCEPT !.miss_handlers = @ \cup {states.next_id}]
    /\ Called(<<>>)
    /\ UNCHANGED <<env, conf, timer, queries, undeclared>>
    /\ Counted

register_miss_callback ==
    /\ ~undeclared
    /\ Input
    /\ states' = [states EXCEPT !.next_id = @ + 1,
                                !.miss_handlers = @ \cup {states.next_id}]
    /\ Called(<<>>)
    /\ UNCHANGED <<env, conf, timer, queries, undeclared>>
    /\ Counted

\* State::unregister_miss_callback (SampleMissListener::undeclare_impl, by
\* undeclare and again by Drop), with an id register_miss_callback returned.
unregister_miss_callback(id) ==
    /\ Input
    /\ id < states.next_id
    /\ states' = [states EXCEPT !.miss_handlers = @ \ {id}]
    /\ Called(<<>>)
    /\ UNCHANGED <<env, conf, timer, queries, undeclared>>
    /\ Counted

\* AdvancedSubscriber::undeclare: the subscriber is undeclared, and the
\* liveliness subscriber dropped with self.  The queries in flight keep their
\* handlers, and the timer its events (each holds a statesref).
undeclare ==
    /\ ~undeclared
    /\ Input
    /\ undeclared' = TRUE
    /\ Called(<<>>)
    /\ UNCHANGED <<env, conf, states, timer, queries>>
    /\ Counted

\* The publisher of the "one" and "two" environments is not modelled: any of
\* its samples may come at any time, and the variable cache is not used.
Next ==
    \/ UNCHANGED <<cache, script, threads>> /\ \E s \in EnvSamples[env] : sub_callback(s)
    \/ UNCHANGED <<cache, script, threads>> /\ \E q \in BagToSet(queries) : \E s \in ReplySamples(q) : reply_callback(q, s)
    \/ UNCHANGED <<cache, script, threads>> /\ \E s \in EnvLivelinessSamples[env] : live_callback(s)
    \/ UNCHANGED <<cache, script, threads>> /\ \E source_id \in SourceIds : PeriodicQuery_run(source_id)
    \/ UNCHANGED <<cache, script, threads>> /\ InitialRepliesHandler_drop
    \/ UNCHANGED <<cache, script, threads>> /\ \E q \in BagToSet(queries) : SequencedRepliesHandler_drop(q)
    \/ UNCHANGED <<cache, script, threads>> /\ \E q \in BagToSet(queries) : TimestampedRepliesHandler_drop(q)
    \/ UNCHANGED <<cache, script, threads>> /\ register_miss_callback
    \/ UNCHANGED <<cache, script, threads>> /\ \E id \in 0..(states.next_id - 1) : unregister_miss_callback(id)
    \/ UNCHANGED <<cache, script, threads>> /\ undeclare

Spec == Init /\ [][Next]_vars

\* Every query ends: its reply handler is dropped once the last reply has
\* come or the query has timed out.
Release ==
    /\ UNCHANGED <<cache, script, threads>>
    /\ \/ InitialRepliesHandler_drop
       \/ \E q \in BagToSet(queries) : SequencedRepliesHandler_drop(q)
       \/ \E q \in BagToSet(queries) : TimestampedRepliesHandler_drop(q)

\* The configurations with recovery, in the environment of one sequenced
\* publisher.
\* The subscriber in the environment of the copies.
CopiesInit == \E c \in Configurations : New(CopiesEnv, c)
CopiesSpec == CopiesInit /\ [][Next]_vars

\* The subscriber with two sessions of publishers in reach.
TwoInit == \E c \in Configurations : New("two", c)
TwoSpec == TwoInit /\ [][Next]_vars

\* The subscriber of a publisher at the end of the sequence domain.
TopInit == \E c \in Configurations : New(TopEnv, c)
TopSpec == TopInit /\ [][Next]_vars

FairInit == \E c \in {x \in Configurations : x.retransmission} : New(SeqEnv, c)

FairSpec == FairInit /\ [][Next]_vars /\ WF_vars(Release)

(***************************************************************************)
(* The environment of a caching publisher: every sample it publishes stays *)
(* in its cache, the live samples reach the subscriber in order but may be *)
(* lost, and a query is answered with every cached sample of its range, in *)
(* order, before its handler is dropped.                                   *)
(***************************************************************************)
CacheConf ==
    [history |-> FALSE, detect_late_publishers |-> FALSE,
     retransmission |-> TRUE, periodic_queries |-> FALSE]

Publish ==
    /\ cache.published <= CacheMaxSn
    /\ cache' = [cache EXCEPT !.published = @ + 1]
    /\ Called(<<>>)
    /\ UNCHANGED <<env, conf, states, timer, queries, undeclared, events, script, threads>>

CacheLive(n) ==
    /\ n \in cache.sent..(cache.published - 1)
    /\ sub_callback(CacheSample(n))
    /\ cache' = [cache EXCEPT !.sent = n + 1]
    /\ UNCHANGED <<script, threads>>

CacheAnswer(q) ==
    /\ BagIn(q, queries)
    /\ cache.answer = None
    /\ cache' = [cache EXCEPT !.answer =
                    Some({n \in 0..(cache.published - 1) :
                            IsSome(q.start) => n >= Unwrap(q.start)})]
    /\ Called(<<>>)
    /\ UNCHANGED <<env, conf, states, timer, queries, undeclared, events, script, threads>>

CacheReply(q) ==
    /\ IsSome(cache.answer)
    /\ Unwrap(cache.answer) # {}
    /\ LET n == MinSn(Unwrap(cache.answer))
       IN  /\ reply_callback(q, CacheSample(n))
           /\ cache' = [cache EXCEPT !.answer = Some(Unwrap(@) \ {n})]
    /\ UNCHANGED <<script, threads>>

CacheDrop(q) ==
    /\ cache.answer = Some({})
    /\ SequencedRepliesHandler_drop(q)
    /\ cache' = [cache EXCEPT !.answer = None]
    /\ UNCHANGED <<script, threads>>

CacheInit == New(CacheEnv, CacheConf)

CacheNext ==
    \/ Publish
    \/ \E n \in 0..CacheMaxSn : CacheLive(n)
    \/ \E q \in BagToSet(queries) : CacheAnswer(q)
    \/ \E q \in BagToSet(queries) : CacheReply(q)
    \/ \E q \in BagToSet(queries) : CacheDrop(q)

SpecCache == CacheInit /\ [][CacheNext]_vars

(***************************************************************************)
(* The scenarios: one publisher whose live samples arrive in a given       *)
(* order, none lost, and whose cache answers every query with the samples  *)
(* of the selector's range it holds, in order, before the handler of the   *)
(* query is dropped.  Live samples, replies, the liveliness token and the  *)
(* timer interleave freely.                                                *)
(***************************************************************************)
LiveOrders == {<<1>>, <<1, 2, 3>>, <<1, 3, 4, 2>>}
CachedSets == {{}, {2}, {1, 2, 3}}

RECURSIVE Ascending(_)
Ascending(S) == IF S = {} THEN <<>> ELSE <<MinSn(S)>> \o Ascending(S \ {MinSn(S)})

\* The scenarios of a configuration: the token is seen only by a liveliness
\* subscriber, the timer ticks only for periodic queries, and only an initial
\* query can find a publisher that was there first.
Scenarios(c) ==
    {sc \in [order : LiveOrders, cached : CachedSets, early : BOOLEAN,
             put : BOOLEAN, tick : BOOLEAN] :
        /\ sc.early => c.history
        /\ sc.put => c.detect_late_publishers
        /\ sc.tick => c.periodic_queries}

\* The replies to a query, in order.
ScriptAnswer(q, sc) ==
    IF q.handler = "Initial"
    THEN Ascending(IF sc.early THEN sc.cached ELSE {})
    ELSE Ascending({n \in sc.cached : CacheSample(n) \in ReplySamples(q)})

\* The queries a step issues join the queries in flight.
ScriptIssued(sc) ==
    LET issued == BagToSet(queries' (-) queries)
    IN  IF issued = {} THEN sc.answers
        ELSE LET q == CHOOSE x \in issued : TRUE
             IN  Append(sc.answers, [q |-> q, todo |-> ScriptAnswer(q, sc)])

RemoveAt(q, i) == SubSeq(q, 1, i - 1) \o SubSeq(q, i + 1, Len(q))

\* The initial query of the subscriber is in flight when it has a history.
ScriptStart(c, sc) ==
    [order |-> sc.order, cached |-> sc.cached, early |-> sc.early,
     put |-> sc.put, tick |-> sc.tick,
     live |-> sc.order, token |-> sc.put, ticks |-> sc.tick,
     answers |-> IF c.history
                 THEN <<[q |-> InitialRepliesHandler,
                         todo |-> Ascending(IF sc.early THEN sc.cached ELSE {})]>>
                 ELSE <<>>]

ScriptInit ==
    \E c \in Configurations :
        \E sc \in Scenarios(c) : NewWith(ScriptEnv, c, ScriptStart(c, sc))

\* The next live sample of the publisher.
ScriptLive ==
    /\ script.live # <<>>
    /\ sub_callback(CacheSample(Head(script.live)))
    /\ script' = [script EXCEPT !.live = Tail(@), !.answers = ScriptIssued(script)]

\* The liveliness token of the publisher is seen.
ScriptToken ==
    /\ script.token
    /\ live_callback([kind |-> "Put", parsed |-> TRUE, zid |-> "1", eid |-> "1"])
    /\ script' = [script EXCEPT !.token = FALSE, !.answers = ScriptIssued(script)]

\* A tick of the timer.
ScriptTick ==
    /\ script.ticks
    /\ PeriodicQuery_run(CacheSource)
    /\ script' = [script EXCEPT !.ticks = FALSE, !.answers = ScriptIssued(script)]

\* The next reply to the i-th query in flight.
ScriptReply(i) ==
    /\ script.answers[i].todo # <<>>
    /\ reply_callback(script.answers[i].q, CacheSample(Head(script.answers[i].todo)))
    /\ script' = [script EXCEPT !.answers[i].todo = Tail(@)]

\* The end of the replies to the i-th query in flight.
ScriptDrop(i) ==
    /\ script.answers[i].todo = <<>>
    /\ IF script.answers[i].q.handler = "Initial"
       THEN InitialRepliesHandler_drop
       ELSE SequencedRepliesHandler_drop(script.answers[i].q)
    /\ script' = [script EXCEPT !.answers = RemoveAt(@, i)]

ScriptNext ==
    \/ UNCHANGED <<cache, threads>> /\ ScriptLive
    \/ UNCHANGED <<cache, threads>> /\ ScriptToken
    \/ UNCHANGED <<cache, threads>> /\ ScriptTick
    \/ UNCHANGED <<cache, threads>> /\ \E i \in DOMAIN script.answers : ScriptReply(i)
    \/ UNCHANGED <<cache, threads>> /\ \E i \in DOMAIN script.answers : ScriptDrop(i)

ScriptSpec == ScriptInit /\ [][ScriptNext]_vars

\* The threads of a subscriber with one publisher in reach; a thread that
\* entered a handler goes on when it can.
LockInit == \E c \in Configurations : New("one", c)
LockSpec ==
    LockInit /\ [][LockNext]_vars /\ \A t \in Threads : WF_vars(Run(t))

\* The scenario is over: nothing is left to come.
ScriptDone ==
    /\ script.live = <<>>
    /\ script.answers = <<>>
    /\ ~script.token
    /\ ~script.ticks

(***************************************************************************)
(* Properties of delivery                                                  *)
(***************************************************************************)
\* The calls of a log that deliver a sample, and their sequence numbers.
SamplesOf(log) == SelectSeq(log, LAMBDA c : c.kind = "sample")
DeliveredSns(s) ==
    [i \in DOMAIN SamplesOf(seq_calls[s]) |->
        Unwrap(SamplesOf(seq_calls[s])[i].sample.source_sn)]
DeliveredTimes(n) ==
    [i \in DOMAIN SamplesOf(ts_calls[n]) |->
        Unwrap(SamplesOf(ts_calls[n])[i].sample.timestamp).time]
StrictlyIncreasing(q) == \A i, j \in DOMAIN q : i < j => q[i] < q[j]

\* C1: for every sequenced source, the sequence numbers of the samples the
\* callback received are strictly increasing, in the order of the calls: no
\* sample of a source is delivered twice or after a later one.
C1_MonotonicSequencedDelivery ==
    \A s \in SourceIds : StrictlyIncreasing(DeliveredSns(s))

\* A source delivered three samples, the last of them out of a buffer that
\* also held a duplicate of a delivered sample.
C1_Witness ==
    \E s \in SourceIds :
        /\ Len(DeliveredSns(s)) >= 3
        /\ Len(SamplesOf(out)) >= 2
        /\ IsSequencedCall(out[1], s)

\* C2: for every timestamp id, the timestamps of the samples the callback
\* received are strictly increasing, in the order of the calls (timestamps of
\* one id differ by their time only).
C2_MonotonicTimestampedDelivery ==
    \A n \in NodeIds : StrictlyIncreasing(DeliveredTimes(n))

\* Two ids delivered samples, and the last call, for one id, carries an older
\* time than the earlier delivery of the other id: across ids the calls come
\* in any order.
C2_Witness ==
    \E n, m \in NodeIds :
        /\ n # m
        /\ Len(DeliveredTimes(n)) >= 1
        /\ Len(DeliveredTimes(m)) >= 1
        /\ out # <<>>
        /\ IsTimestampedCall(out[Len(out)], m)
        /\ DeliveredTimes(m)[Len(DeliveredTimes(m))]
               < DeliveredTimes(n)[Len(DeliveredTimes(n))]

\* The index of the last sample call of log before position i (0: none).
PrevSample(log, i) ==
    LET J == {j \in 1..(i - 1) : log[j].kind = "sample"}
    IN  IF J = {} THEN 0 ELSE CHOOSE j \in J : \A k \in J : k <= j
SnAt(log, i) == Unwrap(log[i].sample.source_sn)

\* The calls a step appended to the log of source s account for every gap:
\* a sample b delivered after a sample a with b > a + 1 comes right after one
\* Miss {source: s, nb: b - a - 1} given to every registered miss callback, a
\* Miss is made nowhere else, and last_delivered is the last delivered sample.
MissAccounting(s, old, log, handlers) ==
    /\ \A i \in (Len(old) + 1)..Len(log) :
        LET p == PrevSample(log, i)
        IN  IF log[i].kind = "sample"
            THEN (p # 0 /\ SnAt(log, i) > SnAt(log, p) + 1)
                    => /\ i > 1
                       /\ log[i - 1] = MissCall(s, SnAt(log, i) - SnAt(log, p) - 1, handlers)
            ELSE /\ i < Len(log)
                 /\ log[i + 1].kind = "sample"
                 /\ p # 0
                 /\ SnAt(log, i + 1) > SnAt(log, p) + 1
                 /\ log[i] = MissCall(s, SnAt(log, i + 1) - SnAt(log, p) - 1, handlers)

\* C3: when a sample with sequence number b is delivered for a source whose
\* previous delivered sample is a, with b > a + 1, every registered miss
\* callback receives exactly one Miss {source, nb: b - a - 1} right before b,
\* and b becomes last_delivered.  No other Miss is made.
C3_MissAccounting ==
    [][\A s \in SourceIds :
          /\ MissAccounting(s, seq_calls[s], seq_calls'[s], states.miss_handlers)
          /\ Len(seq_calls'[s]) > Len(seq_calls[s])
                /\ seq_calls'[s][Len(seq_calls'[s])].kind = "sample"
                => /\ s \in DOMAIN states'.sequenced_states
                   /\ states'.sequenced_states[s].last_delivered
                        = Some(SnAt(seq_calls'[s], Len(seq_calls'[s])))]_vars

\* A registered miss callback received a Miss of two samples (0 delivered,
\* then 3), followed by the sample that closes the gap.
C3_Witness ==
    /\ Len(out) = 2
    /\ out[1].kind = "miss"
    /\ out[1].nb = 2
    /\ out[1].to # {}
    /\ out[2].kind = "sample"
    /\ out[2].sample.source_sn = Some(3)

(***************************************************************************)
(* The release of the global guard                                         *)
(***************************************************************************)
\* The samples the step delivered for the source / the timestamp id.
NewSamples(old, log) == SamplesOf(SubSeq(log, Len(old) + 1, Len(log)))
SamplesSet(q) == {q[i].sample : i \in DOMAIN q}

\* The step emptied the buffer of `st`: the samples of the set Fresh of its
\* keys were delivered (`new`), the others dropped.
Flushed(st, st2, new, Fresh) ==
    /\ st2.pending_samples = EmptyMap
    /\ Len(new) = Cardinality(Fresh)
    /\ SamplesSet(new) = {st.pending_samples[k] : k \in Fresh}
\* The step left the source alone.
NotFlushed(st, st2, new) == st2 = st /\ new = <<>>

FreshSns(st) ==
    {k \in DOMAIN st.pending_samples :
        IsSome(st.last_delivered) => k > Unwrap(st.last_delivered)}
FreshTimestamps(st) ==
    {k \in DOMAIN st.pending_samples :
        IsSome(st.last_delivered) => k.time > Unwrap(st.last_delivered).time}

C7_NoCallAfterUndeclare ==
    [][undeclared => \A i \in DOMAIN out' : out'[i].kind # "sample"]_vars

(***************************************************************************)
(* Invariants of SourceState                                               *)
(***************************************************************************)
\* C8: in every state with last_delivered set, every key of pending_samples
\* is greater than last_delivered.
C8_PendingAboveLastDelivered ==
    /\ \A s \in DOMAIN states.sequenced_states :
        LET st == states.sequenced_states[s]
        IN  IsSome(st.last_delivered)
                => \A k \in DOMAIN st.pending_samples : k > Unwrap(st.last_delivered)
    /\ \A n \in DOMAIN states.timestamped_states :
        LET st == states.timestamped_states[n]
        IN  IsSome(st.last_delivered)
                => \A k \in DOMAIN st.pending_samples :
                        k.time > Unwrap(st.last_delivered).time

\* C9: without retransmission, a sequenced state has an empty buffer whenever
\* global_pending_queries and its own pending_queries are both 0.
C9_IdleBufferEmpty ==
    ~states.retransmission
        => \A s \in DOMAIN states.sequenced_states :
              (states.global_pending_queries = 0
                    /\ states.sequenced_states[s].pending_queries = 0)
                => states.sequenced_states[s].pending_samples = EmptyMap

\* Without retransmission, a release just delivered two buffered samples of a
\* source and left it idle.
C9_Witness ==
    /\ ~states.retransmission
    /\ states.global_pending_queries = 0
    /\ queries = EmptyBag
    /\ \E s \in DOMAIN states.sequenced_states :
        /\ states.sequenced_states[s].pending_queries = 0
        /\ Len(SamplesOf(out)) >= 2
        /\ \A i \in DOMAIN out : IsSequencedCall(out[i], s)

\* C10: last_delivered of a state, once set, stays set and never decreases.
C10_LastDeliveredMonotonic ==
    [][/\ \A s \in DOMAIN states.sequenced_states :
            LET last == states.sequenced_states[s].last_delivered
            IN  IsSome(last)
                  => /\ s \in DOMAIN states'.sequenced_states
                     /\ IsSome(states'.sequenced_states[s].last_delivered)
                     /\ Unwrap(states'.sequenced_states[s].last_delivered) >= Unwrap(last)
       /\ \A n \in DOMAIN states.timestamped_states :
            LET last == states.timestamped_states[n].last_delivered
            IN  IsSome(last)
                  => /\ n \in DOMAIN states'.timestamped_states
                     /\ IsSome(states'.timestamped_states[n].last_delivered)
                     /\ Unwrap(states'.timestamped_states[n].last_delivered).time
                            >= Unwrap(last).time]_vars

\* last_delivered of a source moved from 0 to the greatest sequence number
\* while a timestamp id delivered too.
C10_Witness ==
    /\ \E s \in DOMAIN states.sequenced_states :
        /\ states.sequenced_states[s].last_delivered = Some(MaxSn)
        /\ Len(DeliveredSns(s)) >= 2
        /\ DeliveredSns(s)[1] = 0
    /\ \E n \in DOMAIN states.timestamped_states :
        IsSome(states.timestamped_states[n].last_delivered)

(***************************************************************************)
(* Recovery                                                                *)
(***************************************************************************)
\* C5: with retransmission enabled and a publisher whose cache retains every
\* sample and answers every retransmission query with the samples of its
\* range, every sample between two delivered samples of the source is
\* delivered: the delivered sequence numbers have no gap.
C5_RecoveryDeliversEverySample ==
    \A s \in SourceIds :
        \A i \in 1..(Len(DeliveredSns(s)) - 1) :
            DeliveredSns(s)[i + 1] = DeliveredSns(s)[i] + 1

\* The source has delivered n and holds the later sample k behind a gap.
BufferedBehindGap(s, n, k) ==
    /\ states.retransmission
    /\ s \in DOMAIN states.sequenced_states
    /\ states.sequenced_states[s].last_delivered = Some(n)
    /\ k \in DOMAIN states.sequenced_states[s].pending_samples
    /\ k > n + 1
\* The sequence number x of the source was delivered, or reported by a Miss
\* (the nb sequence numbers before the sample that follows the Miss).
Covered(s, x) ==
    \E i \in DOMAIN seq_calls[s] :
        IF seq_calls[s][i].kind = "sample"
        THEN SnAt(seq_calls[s], i) = x
        ELSE /\ i < Len(seq_calls[s])
             /\ SnAt(seq_calls[s], i + 1) - seq_calls[s][i].nb <= x
             /\ x < SnAt(seq_calls[s], i + 1)
Resolved(s, n, k) ==
    /\ Covered(s, n + 1)
    /\ k \notin DOMAIN states.sequenced_states[s].pending_samples

DeliveredOnce(log) ==
    \A i, j \in DOMAIN log :
        (i < j /\ log[i].kind = "sample" /\ log[j].kind = "sample")
            => log[i].sample # log[j].sample

\* C11 (as stated): a sample is delivered at most once, whatever it carries:
\* no sample occurs twice in the calls made about a source or a timestamp id,
\* and a sample delivered by one step is not delivered again by the next.
C11_AtMostOneDelivery ==
    [][/\ \A s \in SourceIds : DeliveredOnce(seq_calls'[s])
       /\ \A n \in NodeIds : DeliveredOnce(ts_calls'[n])
       /\ \A i \in DOMAIN out : \A j \in DOMAIN out' :
            out[i].kind = "sample" => out'[j] # out[i]]_vars

\* C11 (amended): a sample that carries a source id and a sequence number,
\* or else a timestamp, is delivered at most once, however often and on
\* whatever path it comes.
C11_OrderedSamplesDeliveredOnce ==
    /\ \A s \in SourceIds : DeliveredOnce(seq_calls[s])
    /\ \A n \in NodeIds : DeliveredOnce(ts_calls[n])

\* A sample that was delivered has come again and waits in the buffer of its
\* source, where the flush will drop it.
C11_Witness ==
    \E s \in DOMAIN states.sequenced_states :
        \E k \in DOMAIN states.sequenced_states[s].pending_samples :
            \E i \in DOMAIN seq_calls[s] :
                /\ seq_calls[s][i].kind = "sample"
                /\ seq_calls[s][i].sample = states.sequenced_states[s].pending_samples[k]

(***************************************************************************)
(* The scenarios                                                           *)
(***************************************************************************)
\* The sequence numbers the application received from the publisher, and
\* whether a Miss of it was notified (with or without a listener).
Received == DeliveredSns(CacheSource)
MissNotified == \E i \in DOMAIN seq_calls[CacheSource] : seq_calls[CacheSource][i].kind = "miss"
ExactlyOnce(S, q) ==
    /\ {q[i] : i \in DOMAIN q} = S
    /\ Len(q) = Cardinality(S)

\* The publisher appears after a subscriber with history and
\* detect_late_publishers: its live samples are 1,2,3, its token is seen and
\* the per-source history query returns 1,2,3; the initial query finds nothing.
LateJoiner ==
    /\ conf.history /\ conf.detect_late_publishers
    /\ ~conf.retransmission /\ ~conf.periodic_queries
    /\ script.order = <<1, 2, 3>> /\ script.cached = {1, 2, 3}
    /\ ~script.early /\ script.put

\* C12: in the late-joiner scenario, whatever the interleaving of the live
\* samples, the replies of the per-source history query, the end of that
\* query and the end of the initial query, the application has received 1, 2
\* and 3 each exactly once when the scenario is over.
C12_LateJoinerExactlyOnce ==
    (LateJoiner /\ ScriptDone) => ExactlyOnce({1, 2, 3}, Received)

\* The live samples of the publisher arrive in the order 1,3,4,2 at a
\* subscriber with retransmission (and nothing else), and the cache
\* answers the retransmission query with 2.
Reorder ==
    /\ conf.retransmission /\ ~conf.periodic_queries /\ ~conf.history
    /\ script.order = <<1, 3, 4, 2>> /\ script.cached = {2}
IsPrefix(p, q) == Len(p) <= Len(q) /\ p = SubSeq(q, 1, Len(p))

\* C13: in the reorder scenario the application receives a prefix of
\* 1,2,3,4 at every moment and all of 1,2,3,4, each once, when the scenario
\* is over, and no Miss is notified, wherever the reply to the retransmission
\* query falls before the end of that query.
C13_ReorderRecovered ==
    Reorder =>
        /\ IsPrefix(Received, <<1, 2, 3, 4>>)
        /\ ~MissNotified
        /\ ScriptDone => Received = <<1, 2, 3, 4>>
\* The reply 2 of the retransmission query came before the live sample 2
\* and released 3 and 4 from the buffer; the live 2 is still to come.
C13_Witness ==
    /\ Reorder
    /\ script.live = <<2>>
    /\ Received = <<1, 2, 3, 4>>
    /\ \E i \in DOMAIN script.answers : script.answers[i].todo = <<>>

\* The publisher sends 1 live and keeps 2 in its cache, at a subscriber with
\* recovery and periodic queries (and no history); the timer ticks once.
PeriodicTail ==
    /\ conf.retransmission /\ conf.periodic_queries /\ ~conf.history
    /\ script.order = <<1>> /\ script.cached = {2} /\ script.tick
\* The query of a tick for a source whose last delivered sequence number is
\* `last` (None: nothing delivered yet).
ProbeOf(source_id, last) ==
    [handler |-> "Sequenced", zid |-> source_id.zid, eid |-> source_id.eid,
     selector |-> "_sn", start |-> IF last = None THEN None ELSE Some(Unwrap(last) + 1)]

\* C14: with periodic queries a known source has a periodic event in the
\* timer as soon as no initial query is pending (a source discovered by a
\* live sample or by its liveliness Put has it at once); a tick issues one
\* query for the source with the range last_delivered + 1.. ; and in the
\* scenario of the silent publisher the application has received 1,2 and no
\* Miss when the reply to the probe has come.
C14_PeriodicProbe ==
    /\ [](conf.periodic_queries =>
            \A s \in DOMAIN states.sequenced_states :
                BagIn(s, timer) \/ states.global_pending_queries # 0)
    /\ [][(script.ticks /\ ~script'.ticks) =>
            /\ BagIn(CacheSource, timer)
            /\ queries' = queries (+) SetToBag({ProbeOf(CacheSource,
                              states.sequenced_states[CacheSource].last_delivered)})]_vars
    /\ [](PeriodicTail =>
            /\ IsPrefix(Received, <<1, 2>>)
            /\ ~MissNotified
            /\ ScriptDone => Received = <<1, 2>>)
\* The probe of the tick brought 2 after the live 1.
C14_Witness ==
    /\ PeriodicTail /\ ScriptDone
    /\ Received = <<1, 2>>
    /\ BagIn(CacheSource, timer)

(***************************************************************************)
(* Periodic events, the registry of miss listeners, and the guards         *)
(***************************************************************************)
\* C15: the timer holds at most one periodic event for each sequenced
\* source, in every reachable state.
C15_OnePeriodicEventPerSource ==
    \A s \in SourceIds : CopiesIn(s, timer) <= 1

\* The ids register_miss_callback has returned so far.
ReturnedIds == 0..(states.next_id - 1)
Unregistered(id) == [states EXCEPT !.miss_handlers = @ \ {id}]

\* C16: a registration adds the id next_id, which no registration returned
\* before, and advances next_id; the registry changes in no other way than
\* by a registration or by the removal of exactly one registered id;
\* de-registering a returned id leaves the state as it is but for that id,
\* so de-registering it again changes nothing; and every Miss is notified to
\* exactly the callbacks registered at that moment.
C16_MissListenerRegistry ==
    /\ [](states.miss_handlers \subseteq ReturnedIds)
    /\ [][LET old == states.miss_handlers
              new == states'.miss_handlers
          IN  /\ states'.next_id >= states.next_id
              /\ states'.next_id # states.next_id =>
                    /\ states'.next_id = states.next_id + 1
                    /\ new = old \cup {states.next_id}
              /\ (states'.next_id = states.next_id /\ new # old) =>
                    \E id \in old : states' = Unregistered(id)]_vars
    /\ [](\A id \in ReturnedIds :
            /\ Input => ENABLED (unregister_miss_callback(id) /\ UNCHANGED <<cache, script, threads>>)
            /\ ~ENABLED (/\ unregister_miss_callback(id)
                         /\ UNCHANGED <<cache, script, threads>>
                         /\ states' # Unregistered(id)))
    /\ [](\A i \in DOMAIN out :
            out[i].kind = "miss" => out[i].to = states.miss_handlers)
\* The only listener was de-registered, and a Miss is notified to nobody.
C16_Witness ==
    /\ states.next_id = 1
    /\ states.miss_handlers = {}
    /\ \E i \in DOMAIN out : out[i].kind = "miss" /\ out[i].to = {}

\* The step released a guard of the per-source query q.
Released(q) ==
    /\ q.handler = "Sequenced"
    /\ CopiesIn(q, queries') < CopiesIn(q, queries)
SnsOf(q) == [i \in DOMAIN q |-> Unwrap(q[i].sample.source_sn)]

\* C17: when a retransmission, periodic or per-source history query ends,
\* whatever it returned, pending_queries of its source is decremented (not
\* below 0); if no initial query is pending and that was the last guard of
\* the source, its buffer is emptied in that step: the buffered samples
\* above last_delivered are delivered in ascending order, each gap with its
\* Miss, the others dropped; otherwise the buffer is kept and no call made.
C17_GuardReleasedOnQueryEnd ==
    [][\A q \in BagToSet(queries) :
          (Released(q) /\ HandlerSourceId(q) \in DOMAIN states.sequenced_states) =>
            LET s == HandlerSourceId(q)
                st == states.sequenced_states[s]
                st2 == states'.sequenced_states[s]
                new == NewSamples(seq_calls[s], seq_calls'[s])
            IN  /\ st2.pending_queries
                      = IF st.pending_queries = 0 THEN 0 ELSE st.pending_queries - 1
                /\ IF states.global_pending_queries = 0 /\ st2.pending_queries = 0
                   THEN /\ Flushed(st, st2, new, FreshSns(st))
                        /\ StrictlyIncreasing(SnsOf(new))
                        /\ MissAccounting(s, seq_calls[s], seq_calls'[s],
                                          states.miss_handlers)
                   ELSE /\ st2.pending_samples = st.pending_samples
                        /\ st2.last_delivered = st.last_delivered
                        /\ seq_calls'[s] = seq_calls[s]]_vars
\* The only query of a source ended without the missing sample: the
\* release delivered the buffered samples behind the gap after a Miss (with
\* recovery and no history a Miss comes from no other step).
C17_Witness ==
    /\ conf.retransmission /\ ~conf.history
    /\ queries = EmptyBag
    /\ Len(out) >= 3
    /\ out[1].kind = "miss"
    /\ out[2].kind = "sample"
    /\ out[3].kind = "sample"
    /\ \A s \in DOMAIN states.sequenced_states :
          /\ states.sequenced_states[s].pending_queries = 0
          /\ states.sequenced_states[s].pending_samples = EmptyMap

\* A sample that carries neither a sequence number (with a source id) nor a
\* timestamp.
Orderless(sample) ==
    /\ ~(IsSome(sample.source_id) /\ IsSome(sample.source_sn))
    /\ sample.timestamp = None

\* C18: a step that ends with global_pending_queries non-zero (every step
\* taken while it is non-zero but the release that brings it to 0, and the
\* step that raises it) makes no Miss and delivers no sample but samples
\* without sequence number and timestamp.
C18_NothingDeliveredUnderGlobalGuard ==
    states.global_pending_queries # 0 =>
        \A i \in DOMAIN out : out[i].kind = "sample" /\ Orderless(out[i].sample)
\* While the initial query is pending a sample without sequence number and
\* timestamp was delivered, with a sequenced and a timestamped sample waiting
\* in the buffers.
C18_Witness ==
    /\ states.global_pending_queries # 0
    /\ out # <<>>
    /\ \E s \in DOMAIN states.sequenced_states :
          states.sequenced_states[s].pending_samples # EmptyMap
    /\ \E n \in DOMAIN states.timestamped_states :
          states.timestamped_states[n].pending_samples # EmptyMap

(***************************************************************************)
(* Ingest under the per-source guard                                       *)
(***************************************************************************)
\* The samples of each environment that ingest handles in its sequenced
\* branch / in its timestamped branch.
SequencedInputs ==
    [e \in AllEnvironments |->
        {s \in EnvSamples[e] : IsSome(s.source_id) /\ IsSome(s.source_sn)}]
TimestampedInputs ==
    [e \in AllEnvironments |->
        {s \in EnvSamples[e] :
            ~(IsSome(s.source_id) /\ IsSome(s.source_sn)) /\ IsSome(s.timestamp)}]
\* The sequenced sources / the nodes whose pending_queries is non-zero, and
\* their samples.
GuardedSources ==
    {id \in DOMAIN states.sequenced_states :
        states.sequenced_states[id].pending_queries # 0}
GuardedNodes ==
    {n \in DOMAIN states.timestamped_states :
        states.timestamped_states[n].pending_queries # 0}
GuardedSequenced ==
    IF GuardedSources = {} THEN {}
    ELSE {s \in SequencedInputs[env] : Unwrap(s.source_id) \in GuardedSources}
GuardedTimestamped ==
    IF GuardedNodes = {} THEN {}
    ELSE {s \in TimestampedInputs[env] : Unwrap(s.timestamp).id \in GuardedNodes}

\* C19 (as stated): in every reachable state, ingest of a sample of a
\* sequenced source or of a timestamped node whose pending_queries is
\* non-zero makes no call.
C19_PerSourceGuardBuffers ==
    \A s \in GuardedSequenced \cup GuardedTimestamped :
        handle_sample(states, s).calls = <<>>

\* C19 (amended): ingest of a sample of a timestamped node whose
\* pending_queries is non-zero makes no call, and buffers the sample when it
\* is newer than last_delivered.  Ingest of a sample of a sequenced source
\* does not look at pending_queries: with no initial query pending, the
\* sample is delivered at once when nothing was delivered yet, when it is
\* the successor of last_delivered, or (without retransmission, after its
\* Miss) when it is above it; it is buffered or dropped otherwise.
C19_PerSourceGuardTimestampedOnly ==
    /\ \A s \in GuardedTimestamped :
        LET t == Unwrap(s.timestamp)
            st == states.timestamped_states[t.id]
            r == handle_sample(states, s)
        IN  /\ r.calls = <<>>
            /\ (st.last_delivered = None \/ Unwrap(st.last_delivered).time < t.time)
                  => t \in DOMAIN r.states.timestamped_states[t.id].pending_samples
    /\ \A s \in GuardedSequenced :
        LET st == states.sequenced_states[Unwrap(s.source_id)]
            sn == Unwrap(s.source_sn)
            r == handle_sample(states, s)
        IN  states.global_pending_queries = 0 =>
              ((\E i \in DOMAIN r.calls : r.calls[i] = SampleCall(s))
                 <=> \/ st.last_delivered = None
                     \/ sn = Unwrap(st.last_delivered) + 1
                     \/ ~states.retransmission /\ sn > Unwrap(st.last_delivered))
\* A sample of a sequenced source was delivered while a query for the source
\* was in flight and no initial query pending, and a timestamped sample waits
\* in the buffer of a node with a query in flight.
C19_Witness ==
    /\ states.global_pending_queries = 0
    /\ \E s \in DOMAIN states.sequenced_states :
          /\ states.sequenced_states[s].pending_queries # 0
          /\ \E i \in DOMAIN out : out[i].kind = "sample" /\ IsSequencedCall(out[i], s)
    /\ \E n \in DOMAIN states.timestamped_states :
          /\ states.timestamped_states[n].pending_queries # 0
          /\ states.timestamped_states[n].pending_samples # EmptyMap

\* The state of the node, as entry().or_insert finds or makes it.
NodeState(id) ==
    IF id \in DOMAIN states.timestamped_states
    THEN states.timestamped_states[id]
    ELSE [last_delivered |-> None, pending_queries |-> 0, pending_samples |-> EmptyMap]

\* C20: in every reachable state, ingest of a timestamped sample with
\* timestamp t of node N: drops it and changes nothing when last_delivered
\* of N is set and t <= last_delivered; else delivers it alone and sets
\* last_delivered to t, the buffer untouched, when global_pending_queries
\* and pending_queries of N are both 0; else makes no call and buffers it
\* under t (an earlier sample under t stays), last_delivered untouched.  No
\* other state is touched.
C20_TimestampedIngest ==
  [](\A s \in TimestampedInputs[env] :
        LET t == Unwrap(s.timestamp)
            st == NodeState(t.id)
            r == handle_sample(states, s)
            st2 == r.states.timestamped_states[t.id]
        IN  IF IsSome(st.last_delivered) /\ t.time <= Unwrap(st.last_delivered).time
            THEN r.states = states /\ r.calls = <<>>
            ELSE /\ [r.states EXCEPT !.timestamped_states = states.timestamped_states]
                        = states
                 /\ \A n \in DOMAIN r.states.timestamped_states :
                        n # t.id => /\ n \in DOMAIN states.timestamped_states
                                    /\ r.states.timestamped_states[n]
                                         = states.timestamped_states[n]
                 /\ st2.pending_queries = st.pending_queries
                 /\ IF states.global_pending_queries = 0 /\ st.pending_queries = 0
                    THEN /\ r.calls = <<SampleCall(s)>>
                         /\ st2.last_delivered = Some(t)
                         /\ st2.pending_samples = st.pending_samples
                    ELSE /\ r.calls = <<>>
                         /\ st2.last_delivered = st.last_delivered
                         /\ DOMAIN st2.pending_samples = DOMAIN st.pending_samples \cup {t}
                         /\ \A k \in DOMAIN st.pending_samples :
                                st2.pending_samples[k] = st.pending_samples[k]
                         /\ t \notin DOMAIN st.pending_samples => st2.pending_samples[t] = s)
\* A node delivered a sample and then buffered a newer one under its own
\* guard, with no initial query pending.
C20_Witness ==
    /\ states.global_pending_queries = 0
    /\ \E n \in DOMAIN states.timestamped_states :
          /\ IsSome(states.timestamped_states[n].last_delivered)
          /\ states.timestamped_states[n].pending_queries # 0
          /\ \E k \in DOMAIN states.timestamped_states[n].pending_samples :
                k.time > Unwrap(states.timestamped_states[n].last_delivered).time

(***************************************************************************)
(* Ingest of sequenced samples                                             *)
(***************************************************************************)
\* The state of the source, as handle_sample finds or makes it.
SourceStateOf(id) ==
    IF id \in DOMAIN states.sequenced_states
    THEN states.sequenced_states[id]
    ELSE [last_delivered |-> None, pending_queries |-> 0, pending_samples |-> EmptyMap]
\* The step released a guard.
SomeGuardReleased ==
    \E q \in BagToSet(queries) : CopiesIn(q, queries') < CopiesIn(q, queries)
\* The calls the step made for the source.
NewCalls(s) == SubSeq(seq_calls'[s], Len(seq_calls[s]) + 1, Len(seq_calls'[s]))

\* C21: with retransmission and no initial query pending, ingest of a
\* sequenced sample above last_delivered + 1 makes no call (no sample, no
\* Miss) and puts the sample in pending_samples, nothing else changed; ingest
\* of a sample at or below last_delivered makes no call and changes nothing.
\* A buffered sample leaves the buffer delivered only in a step that releases
\* a guard, or in an ingest that delivers an in-sequence sample first and
\* then every sequence number up to the buffered one.
C21_GapBufferedUnderRetransmission ==
    /\ []((states.retransmission /\ states.global_pending_queries = 0) =>
            \A s \in SequencedInputs[env] :
                LET id == Unwrap(s.source_id)
                    sn == Unwrap(s.source_sn)
                    st == SourceStateOf(id)
                IN  (IsSome(st.last_delivered) /\ sn # Unwrap(st.last_delivered) + 1) =>
                      \A r \in {handle_sample(states, s)} :
                        /\ sn > Unwrap(st.last_delivered) + 1 =>
                            /\ r.calls = <<>>
                            /\ r.states = [states EXCEPT
                                  !.sequenced_states[id].pending_samples =
                                      [k \in DOMAIN @ \cup {sn} |-> IF k = sn THEN s ELSE @[k]]]
                        /\ sn <= Unwrap(st.last_delivered) =>
                            r.calls = <<>> /\ r.states = states)
    /\ [][(states.retransmission /\ seq_calls' # seq_calls) =>
            \A id \in DOMAIN states.sequenced_states :
                LET st == states.sequenced_states[id]
                    st2 == states'.sequenced_states[id]
                    new == NewCalls(id)
                IN  \A k \in DOMAIN st.pending_samples \ DOMAIN st2.pending_samples :
                        (\E i \in DOMAIN new : new[i] = SampleCall(st.pending_samples[k])) =>
                            \/ SomeGuardReleased
                            \/ /\ states.global_pending_queries = 0
                               /\ new[1].kind = "sample"
                               /\ SnAt(new, 1) < k
                               /\ \/ st.last_delivered = None
                                  \/ SnAt(new, 1) = Unwrap(st.last_delivered) + 1
                               /\ \A j \in 1..(k - SnAt(new, 1) + 1) :
                                    /\ j <= Len(new)
                                    /\ new[j].kind = "sample"
                                    /\ SnAt(new, j) = SnAt(new, 1) + j - 1]_vars
\* With retransmission only, a sample buffered behind a gap was delivered by
\* the drain of the ingest that closed the gap, its query still in flight.
C21_Witness ==
    /\ conf.retransmission /\ ~conf.history
    /\ queries # EmptyBag
    /\ Len(out) >= 2
    /\ \A i \in DOMAIN out : out[i].kind = "sample"
    /\ \E id \in DOMAIN states.sequenced_states :
          /\ states.sequenced_states[id].pending_queries # 0
          /\ IsSequencedCall(out[1], id) /\ IsSequencedCall(out[2], id)

\* The last number of the run sn, sn + 1, ... whose numbers above sn are all
\* keys of the buffer.
RunEnd(pending_samples, sn) ==
    CHOOSE m \in sn..(sn + Cardinality(DOMAIN pending_samples)) :
        /\ \A j \in (sn + 1)..m : j \in DOMAIN pending_samples
        /\ (m + 1) \notin DOMAIN pending_samples

\* C22: with no initial query pending, ingest of a sequenced sample sn of a
\* source with nothing delivered yet or with last_delivered + 1 = sn calls
\* the callback with the sample and then with the buffered samples sn + 1,
\* sn + 2, ... up to the first number that is not buffered, in that order
\* and with no Miss; these leave the buffer, every other buffered sample
\* stays, last_delivered is the last number delivered, and nothing else
\* changes.
C22_GreedyDrain ==
    [](states.global_pending_queries = 0 =>
        \A s \in SequencedInputs[env] :
            LET id == Unwrap(s.source_id)
                sn == Unwrap(s.source_sn)
                st == SourceStateOf(id)
                r == handle_sample(states, s)
                m == RunEnd(st.pending_samples, sn)
            IN  (st.last_delivered = None \/ sn = Unwrap(st.last_delivered) + 1) =>
                  /\ r.calls = [i \in 1..(m - sn + 1) |->
                                  SampleCall(IF i = 1 THEN s
                                             ELSE st.pending_samples[sn + i - 1])]
                  /\ r.states.sequenced_states[id] =
                        [last_delivered |-> Some(m),
                         pending_queries |-> st.pending_queries,
                         pending_samples |->
                            [k \in DOMAIN st.pending_samples \ ((sn + 1)..m) |->
                                st.pending_samples[k]]]
                  /\ [r.states EXCEPT !.sequenced_states = states.sequenced_states] = states
                  /\ \A x \in DOMAIN r.states.sequenced_states \ {id} :
                        /\ x \in DOMAIN states.sequenced_states
                        /\ r.states.sequenced_states[x] = states.sequenced_states[x])
\* An ingest delivered its sample and the next one from the buffer, and a
\* sample beyond the next gap stays buffered.
C22_Witness ==
    /\ states.global_pending_queries = 0
    /\ Len(out) = 2
    /\ out[1].kind = "sample" /\ out[2].kind = "sample"
    /\ \E id \in DOMAIN states.sequenced_states :
          /\ IsSequencedCall(out[1], id) /\ IsSequencedCall(out[2], id)
          /\ out[2].sample.source_sn = states.sequenced_states[id].last_delivered
          /\ \E k \in DOMAIN states.sequenced_states[id].pending_samples :
                k > Unwrap(states.sequenced_states[id].last_delivered) + 1

(***************************************************************************)
(* Copies of a sample in the buffer                                        *)
(***************************************************************************)
\* No step replaces the sample held under a key of the buffer.
FirstKept(st, st2) ==
    \A k \in DOMAIN st.pending_samples \cap DOMAIN st2.pending_samples :
        st2.pending_samples[k] = st.pending_samples[k]

\* C23: the sample buffered under a sequence number of a source, or under a
\* timestamp of a node, is the first one that was inserted under it: no step
\* replaces it by a later copy.
C23_FirstInsertionWins ==
    [][/\ \A id \in DOMAIN states.sequenced_states :
            FirstKept(states.sequenced_states[id], states'.sequenced_states[id])
       /\ \A n \in DOMAIN states.timestamped_states :
            FirstKept(states.timestamped_states[n], states'.timestamped_states[n])]_vars

(***************************************************************************)
(* The counters of the guards                                              *)
(***************************************************************************)
\* The number of queries in flight whose reply handler is in the set G.
InFlight(G) ==
    BagCardinality([q \in BagToSet(queries) \cap G |-> CopiesIn(q, queries)])
InitialGuards == {q \in BagToSet(queries) : q.handler = "Initial"}
SequencedGuards(id) ==
    {q \in BagToSet(queries) : q.handler = "Sequenced" /\ HandlerSourceId(q) = id}
TimestampedGuards(n) ==
    {q \in BagToSet(queries) : q.handler = "Timestamped" /\ q.zid = n}

\* C24: at construction global_pending_queries is 1 with a history and 0
\* without; in every reachable state it is the number of queries in flight
\* with an InitialRepliesHandler, and pending_queries of each sequenced
\* source and of each timestamped node is the number of queries in flight
\* with a handler of that source or node (none for a source without state);
\* the release of a guard takes exactly 1 from its counter, which is never
\* below 1 then.
C24_CountersCountGuards ==
    /\ states.global_pending_queries = (IF conf.history THEN 1 ELSE 0)
    /\ [](/\ states.global_pending_queries = InFlight(InitialGuards)
          /\ \A id \in SourceIds :
                InFlight(SequencedGuards(id)) = SourceStateOf(id).pending_queries
          /\ \A n \in NodeIds :
                InFlight(TimestampedGuards(n)) = NodeState(n).pending_queries)
    /\ [][\A q \in BagToSet(queries) :
            CopiesIn(q, queries') < CopiesIn(q, queries) =>
                /\ CopiesIn(q, queries') = CopiesIn(q, queries) - 1
                /\ CASE q.handler = "Initial" ->
                          /\ states.global_pending_queries >= 1
                          /\ states'.global_pending_queries
                                = states.global_pending_queries - 1
                     [] q.handler = "Sequenced" ->
                          /\ states.sequenced_states[HandlerSourceId(q)].pending_queries >= 1
                          /\ states'.sequenced_states[HandlerSourceId(q)].pending_queries
                                = states.sequenced_states[HandlerSourceId(q)].pending_queries - 1
                     [] q.handler = "Timestamped" ->
                          /\ states.timestamped_states[q.zid].pending_queries >= 1
                          /\ states'.timestamped_states[q.zid].pending_queries
                                = states.timestamped_states[q.zid].pending_queries - 1]_vars
\* Two queries for one source are in flight beside the initial query.
C24_Witness ==
    /\ states.global_pending_queries = 1
    /\ \E id \in DOMAIN states.sequenced_states :
          /\ states.sequenced_states[id].pending_queries = 2
          /\ InFlight(SequencedGuards(id)) = 2

(***************************************************************************)
(* The retransmission query of the live path                               *)
(***************************************************************************)
\* C25: in a scenario, the step that ingests the next live sample of the
\* publisher issues a query exactly when retransmission is configured and,
\* after the ingest, the buffer of the source is not empty and its
\* pending_queries is 0; the query is the one with the range
\* last_delivered + 1.. (unbounded when nothing is delivered), and the same
\* step adds 1 to pending_queries; otherwise the step issues no query and
\* leaves the state as the ingest made it.
C25_RetransmissionQuery ==
    [][script'.live # script.live =>
        LET r == handle_sample(states, CacheSample(Head(script.live)))
            st == r.states.sequenced_states[CacheSource]
        IN  IF /\ conf.retransmission
               /\ st.pending_samples # EmptyMap
               /\ st.pending_queries = 0
            THEN /\ queries' = queries (+) SetToBag({ProbeOf(CacheSource, st.last_delivered)})
                 /\ states' = [r.states EXCEPT
                                  !.sequenced_states[CacheSource].pending_queries = 1]
            ELSE /\ queries' = queries
                 /\ states' = r.states]_vars
\* With retransmission only, the live sample 3 came after 1: it is buffered
\* and the query _sn=2.. is in flight.
C25_Witness ==
    /\ conf.retransmission /\ ~conf.periodic_queries /\ ~conf.history
    /\ CacheSource \in DOMAIN states.sequenced_states
    /\ states.sequenced_states[CacheSource].pending_queries = 1
    /\ DOMAIN states.sequenced_states[CacheSource].pending_samples = {3}
    /\ queries = SetToBag({ProbeOf(CacheSource, Some(1))})

(***************************************************************************)
(* The liveliness subscriber                                               *)
(***************************************************************************)
\* The map m2 is m with the state of k created if absent and its
\* pending_queries one higher; nothing else differs.
Bumped(m, m2, k) ==
    /\ DOMAIN m2 = DOMAIN m \cup {k}
    /\ \A j \in DOMAIN m \ {k} : m2[j] = m[j]
    /\ m2[k].pending_queries = (IF k \in DOMAIN m THEN m[k].pending_queries ELSE 0) + 1
    /\ m2[k].last_delivered = (IF k \in DOMAIN m THEN m[k].last_delivered ELSE None)
    /\ m2[k].pending_samples = (IF k \in DOMAIN m THEN m[k].pending_samples ELSE EmptyMap)
\* Exactly the query q is issued.
Issued(q) == queries' = queries (+) SetToBag({q})
\* The liveliness events of each environment (the liveliness subscriber is
\* declared with detect_late_publishers only): the Puts whose key is a
\* token, and the Deletes and the Puts whose key is none.
TokenPuts ==
    [e \in AllEnvironments |->
        {s \in EnvLivelinessSamples[e] : s.kind = "Put" /\ s.parsed}]
IgnoredEvents ==
    [e \in AllEnvironments |->
        {s \in EnvLivelinessSamples[e] : s.kind = "Delete" \/ ~s.parsed}]
\* The step is the liveliness subscriber's callback on s.
LiveStep(s) == live_callback(s) /\ UNCHANGED <<cache, script, threads>>

\* C26: the callback of the liveliness subscriber on a Put whose key is a
\* token: with a node id and the eid uhlc it creates the timestamped state
\* of the node if absent, adds 1 to its pending_queries and issues one
\* history query with a TimestampedRepliesHandler of the node; with a source
\* id (zid, decimal eid) it does the same with the sequenced state and a
\* SequencedRepliesHandler; with a zid that is no ZenohId it adds 1 to
\* global_pending_queries and issues one query with an
\* InitialRepliesHandler.  No other counter changes, last_delivered and
\* pending_samples of every source are kept, and nothing is delivered.
C26_LivelinessPut ==
    [][conf.detect_late_publishers => \A s \in TokenPuts[env] :
        LiveStep(s) =>
            LET zid == ZenohId_from_str(s.zid)
                eid == EntityId_from_str(s.eid)
            IN  /\ out' = <<>> /\ seq_calls' = seq_calls /\ ts_calls' = ts_calls
                /\ states'.miss_handlers = states.miss_handlers
                /\ zid # None /\ s.eid = KE_UHLC =>
                    /\ Bumped(states.timestamped_states, states'.timestamped_states,
                              Unwrap(zid))
                    /\ states'.sequenced_states = states.sequenced_states
                    /\ states'.global_pending_queries = states.global_pending_queries
                    /\ Issued([handler |-> "Timestamped", zid |-> Unwrap(zid), eid |-> 0,
                               selector |-> "history", start |-> None])
                /\ zid # None /\ s.eid # KE_UHLC /\ eid # None =>
                    /\ Bumped(states.sequenced_states, states'.sequenced_states,
                              [zid |-> Unwrap(zid), eid |-> Unwrap(eid)])
                    /\ states'.timestamped_states = states.timestamped_states
                    /\ states'.global_pending_queries = states.global_pending_queries
                    /\ Issued([handler |-> "Sequenced", zid |-> Unwrap(zid),
                               eid |-> Unwrap(eid), selector |-> "history", start |-> None])
                /\ zid = None =>
                    /\ states'.global_pending_queries = states.global_pending_queries + 1
                    /\ states'.sequenced_states = states.sequenced_states
                    /\ states'.timestamped_states = states.timestamped_states
                    /\ Issued([handler |-> "Initial", zid |-> 0, eid |-> 0,
                               selector |-> "history", start |-> None])]_vars
\* The Put of a known source with delivered samples and a buffer raised its
\* counter: a history query for it is in flight next to a range query.
C26_Witness ==
    \E id \in DOMAIN states.sequenced_states :
        /\ states.sequenced_states[id].last_delivered # None
        /\ states.sequenced_states[id].pending_samples # EmptyMap
        /\ states.sequenced_states[id].pending_queries = 2
        /\ BagIn(SequencedHistoryHandler(id), queries)
        /\ out = <<>>

\* C27: the callback of the liveliness subscriber on a Delete, or on a Put
\* whose key is no liveliness token, changes neither the state nor the
\* timer, issues no query and calls nothing; the subscriber is not
\* undeclared by it, so that it handles the following events as before.
C27_IgnoredLivelinessEvent ==
    [][conf.detect_late_publishers => \A s \in IgnoredEvents[env] :
        LiveStep(s) =>
            /\ UNCHANGED <<states, timer, queries, seq_calls, ts_calls, undeclared>>
            /\ out' = <<>>]_vars
\* Such an event came after a delivery: the calls of that step are gone from
\* out and everything else is as it was.
C27_Witness ==
    /\ conf.detect_late_publishers
    /\ ~undeclared
    /\ out = <<>>
    /\ \E id \in SourceIds : seq_calls[id] # <<>>
    /\ queries = EmptyBag
    /\ events < EnvEvents(env)

(***************************************************************************)
(* What a release and an ingest leave alone                                *)
(***************************************************************************)
\* The step released a guard of the query q.
GuardReleased(q) == CopiesIn(q, queries') < CopiesIn(q, queries)
\* The maps m and m2 have the same keys and differ at most at k.
SameExceptAt(m, m2, k) ==
    /\ DOMAIN m2 = DOMAIN m
    /\ \A j \in DOMAIN m \ {k} : m2[j] = m[j]
\* The step made no call.
NothingDelivered == out' = <<>> /\ seq_calls' = seq_calls /\ ts_calls' = ts_calls

\* C28: the release of a guard of a per-source query (sequenced source or
\* timestamped node) leaves global_pending_queries, the miss listeners, the
\* timer and the state and received sequence of every other source and node
\* as they were; and it makes no call when an initial query is pending or
\* when another query of that source is still pending.
C28_ReleaseFrame ==
    [][\A q \in BagToSet(queries) :
        /\ (q.handler = "Sequenced" /\ GuardReleased(q)) =>
              LET s == HandlerSourceId(q)
              IN  /\ states'.global_pending_queries = states.global_pending_queries
                  /\ states'.miss_handlers = states.miss_handlers
                  /\ states'.next_id = states.next_id
                  /\ timer' = timer
                  /\ states'.timestamped_states = states.timestamped_states
                  /\ SameExceptAt(states.sequenced_states, states'.sequenced_states, s)
                  /\ ts_calls' = ts_calls
                  /\ \A j \in SourceIds \ {s} : seq_calls'[j] = seq_calls[j]
                  /\ (\/ states.global_pending_queries # 0
                      \/ states.sequenced_states[s].pending_queries > 1)
                        => NothingDelivered
        /\ (q.handler = "Timestamped" /\ GuardReleased(q)) =>
              LET n == q.zid
              IN  /\ states'.global_pending_queries = states.global_pending_queries
                  /\ states'.miss_handlers = states.miss_handlers
                  /\ states'.next_id = states.next_id
                  /\ timer' = timer
                  /\ states'.sequenced_states = states.sequenced_states
                  /\ SameExceptAt(states.timestamped_states, states'.timestamped_states, n)
                  /\ seq_calls' = seq_calls
                  /\ \A j \in NodeIds \ {n} : ts_calls'[j] = ts_calls[j]
                  /\ (\/ states.global_pending_queries # 0
                      \/ states.timestamped_states[n].pending_queries > 1)
                        => NothingDelivered]_vars
\* After two liveliness Puts of a node and a sample of it (three events),
\* no initial query pending: the node has a buffer and one query left, a
\* guard of it was released with nothing delivered.
C28_Witness ==
    /\ states.global_pending_queries = 0
    /\ out = <<>>
    /\ events = 3
    /\ states.next_id = 0
    /\ DOMAIN states.sequenced_states = {}
    /\ Cardinality(DOMAIN states.timestamped_states) = 1
    /\ \E n \in DOMAIN states.timestamped_states :
          /\ states.timestamped_states[n].pending_queries = 1
          /\ states.timestamped_states[n].pending_samples # EmptyMap
          /\ ts_calls[n] = <<>>
          /\ BagCardinality(queries) = 1

\* The maps m and m2 agree on every key of m but k, and m2 has no key
\* outside m but k.
OthersKept(m, m2, k) ==
    /\ DOMAIN m2 \subseteq DOMAIN m \cup {k}
    /\ \A j \in DOMAIN m \ {k} : j \in DOMAIN m2 /\ m2[j] = m[j]

\* C29: in every reachable state, ingest of a sample of a sequenced source
\* leaves the states of the other sources and of all nodes as they are, and
\* ingest of a sample of a timestamped node leaves the states of the other
\* nodes and of all sources as they are; ingest changes neither
\* global_pending_queries nor pending_queries of the sample's own source
\* (0 when the state is created), and calls nothing about another source;
\* ingest of a sample with neither sequence number nor timestamp calls the
\* callback with that sample alone and returns the state unchanged.
C29_IngestFrame ==
    [](\A s \in EnvSamples[env] :
        LET r == handle_sample(states, s)
        IN  /\ r.states.global_pending_queries = states.global_pending_queries
            /\ r.states.miss_handlers = states.miss_handlers
            /\ (IsSome(s.source_id) /\ IsSome(s.source_sn)) =>
                  LET id == Unwrap(s.source_id)
                  IN  /\ r.states.timestamped_states = states.timestamped_states
                      /\ OthersKept(states.sequenced_states, r.states.sequenced_states, id)
                      /\ id \in DOMAIN r.states.sequenced_states
                      /\ r.states.sequenced_states[id].pending_queries
                            = SourceStateOf(id).pending_queries
                      /\ \A i \in DOMAIN r.calls :
                            \/ r.calls[i].kind = "miss" /\ r.calls[i].source = id
                            \/ r.calls[i].kind = "sample"
                               /\ r.calls[i].sample.source_id = Some(id)
            /\ (~(IsSome(s.source_id) /\ IsSome(s.source_sn)) /\ IsSome(s.timestamp)) =>
                  LET n == Unwrap(s.timestamp).id
                  IN  /\ r.states.sequenced_states = states.sequenced_states
                      /\ OthersKept(states.timestamped_states,
                                    r.states.timestamped_states, n)
                      /\ n \in DOMAIN r.states.timestamped_states
                      /\ r.states.timestamped_states[n].pending_queries
                            = NodeState(n).pending_queries
                      /\ \A i \in DOMAIN r.calls :
                            /\ r.calls[i].kind = "sample"
                            /\ r.calls[i].sample.timestamp # None
                            /\ Unwrap(r.calls[i].sample.timestamp).id = n
            /\ Orderless(s) =>
                  /\ r.calls = <<SampleCall(s)>>
                  /\ r.states = states)
\* While an initial query is pending a sample of each of two sources was
\* ingested: each source has its own sample in its buffer and no other.
C29_Witness ==
    /\ states.global_pending_queries # 0
    /\ \E a, b \in DOMAIN states.sequenced_states :
          /\ a # b
          /\ DOMAIN states.sequenced_states[a].pending_samples = {1}
          /\ DOMAIN states.sequenced_states[b].pending_samples = {2}
          /\ states.sequenced_states[a].pending_samples[1].source_id = Some(a)
          /\ states.sequenced_states[b].pending_samples[2].source_id = Some(b)
    /\ out = <<>>

(***************************************************************************)
(* The core lock                                                           *)
(***************************************************************************)
\* The thread can take its next step.
Runnable(t) == ~Idle(t) /\ (At(t, "lock") => threads.lock = Free)

\* C30: a thread that is about to call get does not hold the core lock, and
\* a thread that is about to take the core lock does not hold it; the thread
\* that holds the lock is inside a handler and its next operation is neither
\* one, so it can always go on; whenever a thread is inside a handler some
\* thread can take a step; and the lock, once taken, is released.
C30_LockDiscipline ==
    /\ [](\A t \in Threads : At(t, "get") => threads.lock # t)
    /\ [](\A t \in Threads : At(t, "lock") => threads.lock # t)
    /\ [](\A t \in Threads :
            threads.lock = t => At(t, "cs") \/ At(t, "call") \/ At(t, "unlock"))
    /\ []((\E t \in Threads : ~Idle(t)) => \E t \in Threads : Runnable(t))
    /\ \A t \in Threads : (threads.lock = t) ~> (threads.lock = Free)
\* A thread of the session holds the lock in a reply callback while the
\* thread of the timer is about to call get and the other thread of the
\* session waits for the lock to drop a handler.
C30_Witness ==
    /\ threads.lock = "bus1"
    /\ At("bus1", "call")
    /\ At("timer", "get")
    /\ At("bus2", "lock")
    /\ threads.bus = 1

\* C31: a thread that runs handle_sample or a flush (the only code that
\* calls the application's callback and the miss callbacks) holds the core
\* lock, so that no two threads are there at the same time: the calls of the
\* callbacks are made one handler after the other, whichever threads the
\* subscription, the replies and the guard releases run on.
C31_CallbacksUnderLock ==
    /\ \A t \in Threads : At(t, "call") => threads.lock = t
    /\ \A t, u \in Threads : (At(t, "call") /\ At(u, "call")) => t = u
\* A thread of the session is in handle_sample for a live sample while the
\* other waits for the lock with a reply or a guard release, and the thread
\* of the timer waits for it too.
C31_Witness ==
    /\ threads.lock = "bus1"
    /\ threads.pc["bus1"] = <<"call", "unlock", "get">>
    /\ threads.pc["bus2"] = <<"lock", "call", "unlock">>
    /\ threads.bus > 0
    /\ At("timer", "lock")

(***************************************************************************)
(* Buffers and guards                                                      *)
(***************************************************************************)
\* C32: in every reachable state (between two handlers), with and without
\* retransmission, a sequenced source or a timestamped node with a buffered
\* sample has a guard: global_pending_queries or its own pending_queries is
\* not 0, and a query with an InitialRepliesHandler, or with a handler of
\* that source or node, is in flight.
C32_BufferedUnderGuard ==
    [](/\ \A s \in DOMAIN states.sequenced_states :
            states.sequenced_states[s].pending_samples # EmptyMap =>
                /\ \/ states.global_pending_queries # 0
                   \/ states.sequenced_states[s].pending_queries # 0
                /\ InitialGuards \cup SequencedGuards(s) # {}
       /\ \A n \in DOMAIN states.timestamped_states :
            states.timestamped_states[n].pending_samples # EmptyMap =>
                /\ \/ states.global_pending_queries # 0
                   \/ states.timestamped_states[n].pending_queries # 0
                /\ InitialGuards \cup TimestampedGuards(n) # {})
\* With retransmission and no initial query pending, a sample is buffered
\* behind a gap and the only guard is the retransmission query of its source.
C32_Witness ==
    /\ states.retransmission
    /\ states.global_pending_queries = 0
    /\ \E s \in DOMAIN states.sequenced_states :
          /\ states.sequenced_states[s].last_delivered # None
          /\ states.sequenced_states[s].pending_samples # EmptyMap
          /\ states.sequenced_states[s].pending_queries = 1
          /\ queries = SetToBag({ProbeOf(s, states.sequenced_states[s].last_delivered)})

(***************************************************************************)
(* Accounting of the sequence numbers                                      *)
(***************************************************************************)
\* The sum of nb over the Miss notifications of a log.
RECURSIVE MissedIn(_)
MissedIn(log) ==
    IF log = <<>> THEN 0
    ELSE (IF Head(log).kind = "miss" THEN Head(log).nb ELSE 0) + MissedIn(Tail(log))
\* Every Miss of the log went to exactly one miss callback.
OneListener(log) ==
    \A i \in DOMAIN log : log[i].kind = "miss" => Cardinality(log[i].to) = 1

\* C33: for every sequenced source with a delivered sample, all of whose
\* Miss notifications went to one registered miss callback: the number of
\* its samples delivered plus the sum of nb over its Miss notifications is
\* last_delivered - f + 1, f being the first sequence number delivered.
C33_SequenceNumbersAccounted ==
    [](\A s \in SourceIds :
        (DeliveredSns(s) # <<>> /\ OneListener(seq_calls[s])) =>
            /\ s \in DOMAIN states.sequenced_states
            /\ states.sequenced_states[s].last_delivered # None
            /\ Len(DeliveredSns(s)) + MissedIn(seq_calls[s])
                  = Unwrap(states.sequenced_states[s].last_delivered)
                        - DeliveredSns(s)[1] + 1)
\* A miss callback is registered; 0 was delivered, then 3 after a Miss of 2:
\* two samples and two missed sequence numbers for 0..3.
C33_Witness ==
    \E s \in SourceIds :
        /\ DeliveredSns(s) = <<0, 3>>
        /\ MissedIn(seq_calls[s]) = 2
        /\ OneListener(seq_calls[s])
        /\ Cardinality(states.miss_handlers) = 1

(***************************************************************************)
(* Discarded samples                                                       *)
(***************************************************************************)
\* Ingest of the sequenced sample s in the current state discards it: no call
\* is made and no sample of its sequence number is held in the buffer of its
\* source.
IngestDiscards(s) ==
    \A r \in {handle_sequenced(states, SourceStateOf(Unwrap(s.source_id)),
                               Unwrap(s.source_id), Unwrap(s.source_sn), s)} :
        /\ r.calls = <<>>
        /\ Unwrap(s.source_sn) \notin DOMAIN r.state.pending_samples
\* The sequence numbers the step took out of the buffer of source id without
\* delivering their sample.
BufferDiscards(id) ==
    {k \in DOMAIN states.sequenced_states[id].pending_samples
            \ DOMAIN states'.sequenced_states[id].pending_samples :
        \A i \in DOMAIN NewCalls(id) :
            NewCalls(id)[i] # SampleCall(states.sequenced_states[id].pending_samples[k])}

C35_NoWrapAtTop ==
    [][\A id \in DOMAIN states.sequenced_states :
          states.sequenced_states[id].last_delivered # None =>
            /\ states'.sequenced_states[id].last_delivered # None
            /\ Unwrap(states'.sequenced_states[id].last_delivered)
                  >= Unwrap(states.sequenced_states[id].last_delivered)
            /\ \A i \in DOMAIN NewCalls(id) :
                  NewCalls(id)[i].kind = "sample" =>
                      SnAt(NewCalls(id), i)
                          > Unwrap(states.sequenced_states[id].last_delivered)]_vars

====
